---- MODULE Spec2Model ----
(***************************************************************************)
(* QtMCP probe connection (python/src/qtmcp/connection.py): one            *)
(* ProbeConnection object, the callers suspended in call(), the receive    *)
(* loop task, disconnect(), and the probe as the environment that puts     *)
(* messages on the stream and closes it.                                   *)
(* Discovery listener (python/src/qtmcp/discovery.py): the probe registry, *)
(* the announce and goodbye datagrams, prune_stale and wait_for_probe.     *)
(* Event recorder (python/src/qtmcp/event_recorder.py): start(), stop()    *)
(* and the notification handler, with the probe answering their calls.    *)
(*                                                                         *)
(* asyncio is cooperative: every action below is one run of a coroutine    *)
(* from one suspension point (await) to the next.                          *)
(***************************************************************************)
EXTENDS Integers, Sequences, FiniteSets, TLC

\* Bounds of the model.
MaxCalls == 2
MaxNotif == 1
MaxTime == 2
MaxSessions == 2
MaxEvents == 1

Ids == 1..MaxCalls

VARIABLES
    ws,                   \* self._ws: "none" or "open" (a stream object is held)
    stream,               \* the stream behind self._ws: "none", "open", "closed"
    next_id,              \* self._next_id
    pending,              \* keys of self._pending
    fut,                  \* the asyncio.Future created by call() for each id
    recv_task,            \* self._recv_task and the state of that task
    connected,            \* self._connected
    pc,                   \* where the call() that owns each id stands
    ret,                  \* what that call() returned or raised
    wire,                 \* ids of the requests handed to ws.send, in order
    disc_pc,              \* where the running disconnect() stands
    disc_snap,            \* ids of the calls unresolved when disconnect() began
    notification_handler, \* the callback installed with on_notification
    delivered,            \* (method) of every callback invocation, in order
    arrived,              \* (method) of every message with no matching pending id
                          \* that arrived while a callback was installed
    opened,               \* connect() has succeeded on this object
    ev,                   \* the step just taken
    \* DiscoveryListener
    probes,               \* self._probes, in insertion order (a dict keeps it)
    now,                  \* time.monotonic()
    found_event,          \* self._found_event is set
    waiter,               \* the wait_for_probe() in progress
    disc_ret,             \* what the last prune_stale / wait_for_probe returned
    transport,            \* self._running with the endpoint's transport, and the
                          \* number of datagrams that endpoint has discarded
    \* EventRecorder
    recording,            \* self._recording
    events,               \* self._events
    subscriptions,        \* self._subscriptions
    include_lifecycle,    \* self._include_lifecycle
    capture_events,       \* self._capture_events
    start_time,           \* self._start_time
    session,              \* number of sessions begun (start() reached its reset)
    rec_op,               \* the start() / stop() in progress and its locals
    rec_op2,              \* a second start() / stop() in progress at the same time
    rec_ret,              \* what the last start() / stop() returned
    server,               \* the probe's side: subscriptions, settings, calls received
    \* Session state (server.py)
    _probe,               \* _probe: 0 for None, or the index in conns of the current one
    conns,                \* the ProbeConnection objects whose connect() has succeeded
    srv_op,               \* the session operation in progress and its locals
    srv_ret,              \* what the last session operation returned or raised
    \* download_and_extract (download.py)
    dl                    \* the call in progress, the output directory, the outcome

\* ProbeConnection, but for the installed callback
connVars == <<ws, stream, next_id, pending, fut, recv_task, connected, pc, ret, wire,
              disc_pc, disc_snap, delivered, arrived, opened>>

discVars == <<probes, now, found_event, waiter, disc_ret, transport>>

recVars == <<recording, events, subscriptions, include_lifecycle, capture_events,
             start_time, session, rec_op, rec_op2, rec_ret, server>>

sessVars == <<_probe, conns, srv_op, srv_ret>>

dlVars == <<dl>>

vars == <<connVars, notification_handler, ev, discVars, recVars, sessVars, dlVars>>

----------------------------------------------------------------------------
\* Values

\* asyncio.Future: not created yet, created and unresolved, or resolved.
NoFuture == [st |-> "none", val |-> "-", code |-> 0, message |-> "-"]
Unresolved == [st |-> "unresolved", val |-> "-", code |-> 0, message |-> "-"]
ResultOf(v) == [st |-> "result", val |-> v, code |-> 0, message |-> "-"]
ConnectionErrorOf(text) == [st |-> "conn_error", val |-> "-", code |-> 0, message |-> text]

\* ProbeError(message, code=-1)
ProbeError(message, code) ==
    [st |-> "probe_error", val |-> "-", code |-> code, message |-> message]

\* What ws.send raises on a closed stream (websockets' ConnectionClosed).
SendFailed == [st |-> "send_error", val |-> "-", code |-> 0, message |-> "ConnectionClosed"]
Cancelled == [st |-> "cancelled", val |-> "-", code |-> 0, message |-> "-"]

Done(f) == f.st \in {"result", "probe_error", "conn_error"}

\* What the module logged last (logger.debug), and which operation returned last.
Event(op, id) == [op |-> op, id |-> id]

\* The "error" member of a message: absent, present but no object, or an object
\* with optional "code" and "message".
NoError == [kind |-> "absent", hasCode |-> FALSE, code |-> 0, hasMessage |-> FALSE, message |-> "-"]
BadError == [kind |-> "nonobject", hasCode |-> FALSE, code |-> 0, hasMessage |-> FALSE, message |-> "-"]
FullError ==
    [kind |-> "object", hasCode |-> TRUE, code |-> -32601,
     hasMessage |-> TRUE, message |-> "Method not found"]
EmptyError == [kind |-> "object", hasCode |-> FALSE, code |-> 0, hasMessage |-> FALSE, message |-> "-"]

\* One inbound text frame. shape: "nonjson" (json.loads fails), "nonobject" (JSON,
\* but a list, number, string or null), "object". idKind: "absent" (no id, or null),
\* "int", "str" (hashable, equal to no request id), "unhashable" (a list or object).
Msg(shape, idKind, idVal, method, result, error) ==
    [shape |-> shape, idKind |-> idKind, idVal |-> idVal, method |-> method,
     result |-> result, error |-> error]

Payloads ==
    {<<"pong", NoError>>, <<"absent", NoError>>, <<"absent", FullError>>,
     <<"absent", EmptyError>>, <<"absent", BadError>>}

Responses ==
    {Msg("object", "int", k, "absent", p[1], p[2]) : k \in Ids, p \in Payloads}
    \cup {Msg("object", ik, 0, "absent", p[1], p[2]) : ik \in {"str", "unhashable"},
                                                      p \in {<<"pong", NoError>>}}

Notifications == {Msg("object", "absent", 0, "signalEmitted", "absent", NoError)}

Messages ==
    Responses \cup Notifications
    \cup {Msg("nonjson", "absent", 0, "absent", "absent", NoError),
          Msg("nonobject", "absent", 0, "absent", "absent", NoError)}

\* A member of a JSON object: absent, or present with a value; dict.get(name, default).
Absent == [has |-> FALSE, v |-> 0]
Field(v) == [has |-> TRUE, v |-> v]
Get(f, default) == IF f.has THEN f.v ELSE default

\* No wait_for_probe() is in progress.
NoWaiter == [pc |-> "idle", deadline |-> 0]

\* The listener is not running: no endpoint, no transport.
NoTransport == [running |-> FALSE, dropped |-> 0]

\* Nothing has returned yet.
NoReturn == [op |-> "none", how |-> "-", val |-> <<>>]

\* No start() or stop() is in progress.
NoOp == [op |-> "none", pc |-> "idle"]

\* The locals of a start() or stop() that begins, with what it found and did.
Locals ==
    [op |-> "none", pc |-> "idle", todo |-> <<>>, old |-> <<>>,
     arg_lifecycle |-> FALSE, arg_capture |-> FALSE, ntargets |-> 0,
     targets |-> <<>>, in_target |-> FALSE, objs |-> <<>>, obj |-> "-", sigs |-> <<>>,
     count |-> 0, total_subs |-> 0, restart |-> FALSE, succeeded |-> 0, attempted |-> 0,
     discarded |-> 0, queries |-> <<>>, resolved |-> 0, live |-> FALSE, sess |-> 0,
     duration |-> 0, teardown |-> {}]

\* Neither start() nor stop() has returned yet.
NoResult == [op |-> "none"]

\* What stop() returns when the recorder is not recording.
NotRecording ==
    [op |-> "stop", recording |-> FALSE, subscriptions |-> 0, targets |-> 0,
     capture_events |-> FALSE, event_count |-> 0, events |-> <<>>,
     old |-> <<>>, restart |-> FALSE, succeeded |-> 0, attempted |-> 0,
     discarded |-> 0, queries |-> <<>>, resolved |-> 0, duration |-> 0, teardown |-> {}]

\* The probe before any call: no subscription, nothing enabled.
NoServer ==
    [subs |-> {}, unsubscribed |-> {}, lifecycle |-> FALSE, capture |-> FALSE]

----------------------------------------------------------------------------
\* ProbeConnection.__init__, DiscoveryListener.__init__, EventRecorder.__init__
\* no session operation in progress
NoCall == [op |-> "none", pc |-> "idle"]

\* no session operation has ended yet
NoOutcome == [kind |-> "none", op |-> "none"]

\* download_and_extract has not been called; the output directory is empty
NoDownload == [pc |-> "idle", file |-> "none", extracted |-> "none", ret |-> "none"]

Init ==
    /\ ws = "none"
    /\ stream = "none"
    /\ next_id = 1
    /\ pending = {}
    /\ fut = [k \in Ids |-> NoFuture]
    /\ recv_task = "none"
    /\ connected = FALSE
    /\ pc = [k \in Ids |-> "none"]
    /\ ret = [k \in Ids |-> NoFuture]
    /\ wire = <<>>
    /\ disc_pc = "idle"
    /\ disc_snap = {}
    /\ notification_handler = "none"
    /\ delivered = <<>>
    /\ arrived = <<>>
    /\ opened = FALSE
    /\ ev = Event("step", 0)
    /\ probes = <<>>
    /\ now = 0
    /\ found_event = FALSE
    /\ waiter = NoWaiter
    /\ disc_ret = NoReturn
    /\ transport = NoTransport
    /\ recording = FALSE
    /\ events = <<>>
    /\ subscriptions = <<>>
    /\ include_lifecycle = TRUE
    /\ capture_events = FALSE
    /\ start_time = 0
    /\ session = 0
    /\ rec_op = NoOp
    /\ rec_op2 = NoOp
    /\ rec_ret = NoResult
    /\ server = NoServer
    /\ _probe = 0
    /\ conns = <<>>
    /\ srv_op = NoCall
    /\ srv_ret = NoOutcome
    /\ dl = NoDownload

----------------------------------------------------------------------------
\* ProbeConnection.connect: the stream is opened (await connect(url)); then, with
\* no suspension in between, the state is set and the receive task is created. The
\* task has not started yet when connect() returns.
Connect ==
    /\ disc_pc = "idle"
    /\ ~connected
    /\ recv_task = "none"
    /\ ~opened
    /\ ws' = "open"
    /\ stream' = "open"
    /\ connected' = TRUE
    /\ recv_task' = "scheduled"
    /\ opened' = TRUE
    /\ ev' = Event("step", 0)
    /\ UNCHANGED <<next_id, pending, fut, pc, ret, wire, disc_pc, disc_snap,
                   notification_handler, delivered, arrived>>
    /\ UNCHANGED <<discVars, recVars, sessVars, dlVars>>

\* connect() whose stream cannot be opened: the exception propagates, nothing is set.
ConnectFails ==
    /\ disc_pc = "idle"
    /\ ~connected
    /\ recv_task = "none"
    /\ ev' = Event("step", 0)
    /\ UNCHANGED <<ws, stream, next_id, pending, fut, recv_task, connected, pc, ret, wire,
                   disc_pc, disc_snap, notification_handler, delivered, arrived, opened>>
    /\ UNCHANGED <<discVars, recVars, sessVars, dlVars>>

\* on_notification(callback | None)
OnNotification(cb) ==
    /\ notification_handler' = cb
    /\ ev' = Event("step", 0)
    /\ UNCHANGED <<ws, stream, next_id, pending, fut, recv_task, connected, pc, ret, wire,
                   disc_pc, disc_snap, delivered, arrived, opened>>
    /\ UNCHANGED <<discVars, recVars, sessVars, dlVars>>

----------------------------------------------------------------------------
\* ProbeConnection.call

\* Mutant: the id counter is not advanced.
AllocateIdStuck == next_id

\* self._next_id += 1
AllocateId == next_id + 1

\* Mutant: the connected check comes after the id was taken and the entry made.
CallNotConnectedLate ==
    /\ ev' = Event("call_refused", 0)
    /\ next_id' = next_id + 1
    /\ pending' = pending \cup {next_id}
    /\ UNCHANGED <<fut, pc, ret, wire>>

\* raise ProbeError("Not connected to probe"), before anything else is touched
CallNotConnected ==
    /\ ev' = Event("call_refused", 0)
    /\ UNCHANGED <<next_id, pending, fut, pc, ret, wire>>

\* Mutant: the request is handed to the stream before its future is registered, and
\* the caller is suspended in the send with no entry in the pending table.
CallSendsFirst ==
    /\ UNCHANGED <<ws, stream, recv_task, connected, disc_pc, disc_snap,
                   notification_handler, delivered, arrived, opened>>
    /\ IF ~connected \/ ws = "none"
       THEN CallNotConnected
       ELSE /\ next_id <= MaxCalls
            /\ stream = "open"
            /\ next_id' = AllocateId
            /\ fut' = [fut EXCEPT ![next_id] = Unresolved]
            /\ pending' = pending
            /\ wire' = Append(wire, next_id)
            /\ pc' = [pc EXCEPT ![next_id] = "waiting"]
            /\ ret' = [ret EXCEPT ![next_id] = NoFuture]
            /\ ev' = Event("step", 0)
    /\ UNCHANGED <<discVars, recVars, sessVars, dlVars>>

\* call() up to its suspension: the connected check, the id, the pending entry and
\* the hand-over of the request to ws.send, which raises on a closed stream. Nothing
\* but `await future` follows the send, so the wait for the send to complete and the
\* wait for the future are one suspension here.
Call ==
    /\ UNCHANGED <<ws, stream, recv_task, connected, disc_pc, disc_snap,
                   notification_handler, delivered, arrived, opened>>
    /\ IF ~connected \/ ws = "none"
       THEN CallNotConnected
       ELSE /\ next_id <= MaxCalls
            /\ LET request_id == next_id IN
               /\ next_id' = AllocateId
               /\ fut' = [fut EXCEPT ![request_id] = Unresolved]
               /\ pending' = pending \cup {request_id}
               /\ IF stream = "open"
                  THEN /\ wire' = Append(wire, request_id)
                       /\ pc' = [pc EXCEPT ![request_id] = "waiting"]
                       /\ ret' = [ret EXCEPT ![request_id] = NoFuture]
                  ELSE /\ wire' = wire
                       /\ pc' = [pc EXCEPT ![request_id] = "raised"]
                       /\ ret' = [ret EXCEPT ![request_id] = SendFailed]
               /\ ev' = Event("step", 0)
    /\ UNCHANGED <<discVars, recVars, sessVars, dlVars>>

\* return await future: the result is returned, the exception raised.
CallReturn(k) ==
    /\ pc[k] = "waiting"
    /\ Done(fut[k])
    /\ pc' = [pc EXCEPT ![k] = IF fut[k].st = "result" THEN "returned" ELSE "raised"]
    /\ ret' = [ret EXCEPT ![k] = fut[k]]
    /\ ev' = Event("step", 0)
    /\ UNCHANGED <<ws, stream, next_id, pending, fut, recv_task, connected, wire,
                   disc_pc, disc_snap, notification_handler, delivered, arrived, opened>>
    /\ UNCHANGED <<discVars, recVars, sessVars, dlVars>>

\* Mutant: the cancelled caller leaves its entry in the pending table.
CallCancelledKeepsEntry(k) ==
    /\ pc[k] = "waiting"
    /\ pending' = pending
    /\ pc' = [pc EXCEPT ![k] = "cancelled"]
    /\ ret' = [ret EXCEPT ![k] = Cancelled]
    /\ ev' = Event("step", 0)
    /\ UNCHANGED <<ws, stream, next_id, fut, recv_task, connected, wire,
                   disc_pc, disc_snap, notification_handler, delivered, arrived, opened>>
    /\ UNCHANGED <<discVars, recVars, sessVars, dlVars>>

\* except asyncio.CancelledError: self._pending.pop(request_id, None); raise
CallCancelled(k) ==
    /\ pc[k] = "waiting"
    /\ pending' = pending \ {k}
    /\ pc' = [pc EXCEPT ![k] = "cancelled"]
    /\ ret' = [ret EXCEPT ![k] = Cancelled]
    /\ ev' = Event("step", 0)
    /\ UNCHANGED <<ws, stream, next_id, fut, recv_task, connected, wire,
                   disc_pc, disc_snap, notification_handler, delivered, arrived, opened>>
    /\ UNCHANGED <<discVars, recVars, sessVars, dlVars>>

----------------------------------------------------------------------------
\* ProbeConnection._recv_loop

\* ProbeError.from_jsonrpc(error), for an error that is an object
FromJsonrpc(error) ==
    ProbeError(IF error.hasMessage THEN error.message ELSE "Unknown probe error",
               IF error.hasCode THEN error.code ELSE -1)

\* Mutant: the result member is dropped.
ResultValueDropped(m) == "empty_object"

\* msg.get("result", {})
ResultValue(m) == IF m.result = "absent" THEN "empty_object" ELSE m.result

\* The futures after the finally block has walked the pending table `pend`.
FailPending(pend, text) ==
    [k \in Ids |-> IF k \in pend /\ ~Done(fut[k]) THEN ConnectionErrorOf(text) ELSE fut[k]]

\* finally: self._connected = False; fail what is pending; self._pending.clear()
Finally(pend) ==
    /\ connected' = FALSE
    /\ fut' = FailPending(pend, "WebSocket closed")
    /\ pending' = {}

\* An exception other than CancelledError leaves the loop: logged, then finally.
Crash(pend) ==
    /\ Finally(pend)
    /\ recv_task' = "done"
    /\ delivered' = delivered
    /\ ev' = Event("closed", 0)

\* msg_id is None or msg_id not in self._pending
IsUnmatched(m) ==
    \/ m.idKind \in {"absent", "str"}
    \/ m.idKind = "int" /\ m.idVal \notin pending

\* "Ignoring non-JSON message"; continue
NonJson ==
    /\ ev' = Event("ignored_non_json", 0)
    /\ UNCHANGED <<connected, fut, pending, recv_task, delivered>>

\* Mutant: an unmatched message is handed to a callback inside no try block, and a
\* callback that raises ends the loop.
UnmatchedUnguarded(m) ==
    IF notification_handler = "raising"
    THEN Crash(pending)
    ELSE /\ ev' = Event("ignored", m.idVal)
         /\ UNCHANGED <<connected, fut, pending, recv_task, delivered>>

\* "Notification or unmatched response -- ignore": "Ignoring message with id=%s";
\* continue
Unmatched(m) ==
    /\ ev' = Event("ignored", m.idVal)
    /\ UNCHANGED <<connected, fut, pending, recv_task, delivered>>

\* Mutant: the entry is looked up, not popped, and the future is set whether done or
\* not (set_result on a done future raises InvalidStateError, which ends the loop).
MatchedNotPopped(m) ==
    IF Done(fut[m.idVal]) \/ m.error.kind = "nonobject"
    THEN Crash(pending)
    ELSE /\ fut' = [fut EXCEPT ![m.idVal] =
                       IF m.error.kind = "object"
                       THEN FromJsonrpc(m.error)
                       ELSE ResultOf(ResultValue(m))]
         /\ ev' = Event("step", 0)
         /\ UNCHANGED <<pending, connected, recv_task, delivered>>

\* The message's id is in the pending table: pop the future and resolve it.
Matched(m) ==
    LET future == fut[m.idVal]
        popped == pending \ {m.idVal}
    IN  IF Done(future)
        THEN /\ pending' = popped
             /\ ev' = Event("step", 0)
             /\ UNCHANGED <<connected, fut, recv_task, delivered>>
        ELSE IF m.error.kind = "nonobject"
        THEN Crash(popped)
        ELSE /\ pending' = popped
             /\ fut' = [fut EXCEPT ![m.idVal] =
                           IF m.error.kind = "object"
                           THEN FromJsonrpc(m.error)
                           ELSE ResultOf(ResultValue(m))]
             /\ ev' = Event("step", 0)
             /\ UNCHANGED <<connected, recv_task, delivered>>

\* One iteration of `async for raw in self._ws`, for the inbound frame m.
Handle(m) ==
    IF m.shape = "nonjson" THEN NonJson
    ELSE IF m.shape = "nonobject" \/ m.idKind = "unhashable" THEN Crash(pending)
    ELSE IF IsUnmatched(m) THEN Unmatched(m)
    ELSE Matched(m)

\* A message with no id, or an id not in the pending table, read while a callback
\* is installed.
ForCallback(m) ==
    /\ m.shape = "object"
    /\ m.idKind # "unhashable"
    /\ IsUnmatched(m)
    /\ notification_handler # "none"

\* The task created by connect() starts running the loop.
RecvLoopStart ==
    /\ recv_task = "scheduled"
    /\ recv_task' = "running"
    /\ ev' = Event("step", 0)
    /\ UNCHANGED <<ws, stream, next_id, pending, fut, connected, pc, ret, wire,
                   disc_pc, disc_snap, notification_handler, delivered, arrived, opened>>
    /\ UNCHANGED <<discVars, recVars, sessVars, dlVars>>

RecvLoopStep(m) ==
    /\ recv_task = "running"
    /\ stream = "open"
    /\ ForCallback(m) => Len(arrived) < MaxNotif
    /\ Handle(m)
    /\ arrived' = IF ForCallback(m) THEN Append(arrived, m.method) ELSE arrived
    /\ UNCHANGED <<ws, stream, next_id, pc, ret, wire, disc_pc, disc_snap,
                   notification_handler, opened>>
    /\ UNCHANGED <<discVars, recVars, sessVars, dlVars>>

\* The stream ends (normal close, or an error raised by the iteration).
RecvLoopEnd ==
    /\ recv_task = "running"
    /\ stream = "closed"
    /\ Finally(pending)
    /\ recv_task' = "done"
    /\ ev' = Event("step", 0)
    /\ UNCHANGED <<ws, stream, next_id, pc, ret, wire, disc_pc, disc_snap,
                   notification_handler, delivered, arrived, opened>>
    /\ UNCHANGED <<discVars, recVars, sessVars, dlVars>>

\* except asyncio.CancelledError: raise -- after the finally block
RecvLoopCancelled ==
    /\ recv_task = "cancelling"
    /\ Finally(pending)
    /\ recv_task' = "cancelled"
    /\ ev' = Event("step", 0)
    /\ UNCHANGED <<ws, stream, next_id, pc, ret, wire, disc_pc, disc_snap,
                   notification_handler, delivered, arrived, opened>>
    /\ UNCHANGED <<discVars, recVars, sessVars, dlVars>>

\* The probe, or the network, ends the stream.
StreamCloses ==
    /\ stream = "open"
    /\ stream' = "closed"
    /\ ev' = Event("step", 0)
    /\ UNCHANGED <<ws, next_id, pending, fut, recv_task, connected, pc, ret, wire,
                   disc_pc, disc_snap, notification_handler, delivered, arrived, opened>>
    /\ UNCHANGED <<discVars, recVars, sessVars, dlVars>>

----------------------------------------------------------------------------
\* ProbeConnection.disconnect

\* The calls suspended in `await future` on a future nobody has resolved.
Suspended == {k \in Ids : pc[k] = "waiting" /\ fut[k].st = "unresolved"}

\* ws is None, no receive task, not connected, nothing pending
Clean == ws = "none" /\ recv_task = "none" /\ ~connected /\ pending = {}

\* Mutant: the pending table is not cleared.
DisconnectFinishKeepsPending ==
    /\ fut' = FailPending(pending, "Disconnected from probe")
    /\ pending' = pending
    /\ disc_pc' = "idle"

\* Resolve all pending futures with ConnectionError; self._pending.clear(); return
DisconnectFinish ==
    /\ fut' = FailPending(pending, "Disconnected from probe")
    /\ pending' = {}
    /\ disc_pc' = "idle"

\* if self._ws is not None: await self._ws.close(); self._ws = None
DisconnectCloseWs(again) ==
    IF ws # "none"
    THEN /\ stream' = "closed"
         /\ disc_pc' = "await_close"
         /\ ev' = Event("step", 0)
         /\ UNCHANGED <<ws, fut, pending>>
    ELSE /\ DisconnectFinish
         /\ ev' = Event("disconnect_return", again)
         /\ UNCHANGED <<ws, stream>>

\* Mutant: the receive task is cancelled but not awaited.
DisconnectStartNoAwait ==
    /\ disc_pc = "idle"
    /\ connected' = FALSE
    /\ disc_snap' = Suspended
    /\ recv_task' = CASE recv_task = "running" -> "cancelling"
                      [] recv_task = "scheduled" -> "cancelled"
                      [] OTHER -> "none"
    /\ DisconnectCloseWs(IF Clean THEN 1 ELSE 0)
    /\ UNCHANGED <<next_id, pc, ret, wire, notification_handler, delivered, arrived, opened>>
    /\ UNCHANGED <<discVars, recVars, sessVars, dlVars>>

\* disconnect() up to its first suspension. cancel() of a task that has not started
\* ends it without running its body; awaiting a finished task does not suspend.
DisconnectStart ==
    /\ disc_pc = "idle"
    /\ connected' = FALSE
    /\ disc_snap' = Suspended
    /\ IF recv_task \in {"scheduled", "running"}
       THEN /\ recv_task' = IF recv_task = "running" THEN "cancelling" ELSE "cancelled"
            /\ disc_pc' = "await_recv"
            /\ ev' = Event("step", 0)
            /\ UNCHANGED <<ws, stream, fut, pending>>
       ELSE /\ recv_task' = "none"
            /\ DisconnectCloseWs(IF Clean THEN 1 ELSE 0)
    /\ UNCHANGED <<next_id, pc, ret, wire, notification_handler, delivered, arrived, opened>>
    /\ UNCHANGED <<discVars, recVars, sessVars, dlVars>>

\* await self._recv_task returns (CancelledError swallowed); self._recv_task = None
DisconnectAfterRecv ==
    /\ disc_pc = "await_recv"
    /\ recv_task = "cancelled"
    /\ recv_task' = "none"
    /\ DisconnectCloseWs(0)
    /\ UNCHANGED <<next_id, connected, pc, ret, wire, disc_snap,
                   notification_handler, delivered, arrived, opened>>
    /\ UNCHANGED <<discVars, recVars, sessVars, dlVars>>

\* await self._ws.close() returns
DisconnectAfterClose ==
    /\ disc_pc = "await_close"
    /\ ws' = "none"
    /\ DisconnectFinish
    /\ ev' = Event("disconnect_return", 0)
    /\ UNCHANGED <<stream, next_id, recv_task, connected, pc, ret, wire, disc_snap,
                   notification_handler, delivered, arrived, opened>>
    /\ UNCHANGED <<discVars, recVars, sessVars, dlVars>>

----------------------------------------------------------------------------
NextConnection ==
    \/ Connect
    \/ ConnectFails
    \/ Call
    \/ \E k \in Ids : CallReturn(k)
    \/ \E k \in Ids : CallCancelled(k)
    \/ RecvLoopStart
    \/ \E m \in Messages : RecvLoopStep(m)
    \/ RecvLoopEnd
    \/ RecvLoopCancelled
    \/ StreamCloses
    \/ DisconnectStart
    \/ DisconnectAfterRecv
    \/ DisconnectAfterClose

\* The connection as src/ has it: no callback can be installed.
Spec == Init /\ [][NextConnection]_vars

\* bound: requests made on the connection that has a callback
MaxNotifyCalls == 1

\* The connection with on_notification.
NextNotify ==
    \/ NextConnection /\ next_id' <= MaxNotifyCalls + 1
    \/ \E cb \in {"none", "callback", "raising"} : OnNotification(cb)

SpecNotify == Init /\ [][NextNotify]_vars

----------------------------------------------------------------------------
\* Request ids

\* The ids of the calls whose request was handed to the stream without ws.send raising.
IdsSent == {k \in Ids : pc[k] # "none" /\ ret[k].st # "send_error"}

\* C1: the ids call() assigns are 1, 2, ... in invocation order, none reused or reset
\* while the object lives, and the ids on the wire are the assigned ids in that order
\* (all of 1..N unless ws.send raised for some of them).
C1_IdsInInvocationOrder ==
    /\ \A k \in Ids : (pc[k] # "none") <=> (k < next_id)
    /\ \A i \in 1..Len(wire) : wire[i] \in IdsSent
    /\ \A i, j \in 1..Len(wire) : i < j => wire[i] < wire[j]
    /\ Len(wire) = Cardinality(IdsSent)
    /\ IdsSent = 1..(next_id - 1) => wire = [i \in 1..(next_id - 1) |-> i]

\* Two calls issued one after the other, neither awaited: both still suspended.
C1_Witness ==
    /\ wire = <<1, 2>>
    /\ pc[1] = "waiting" /\ pc[2] = "waiting"
    /\ fut[1].st = "unresolved" /\ fut[2].st = "unresolved"

\* C2: a future is resolved at most once, and a message carrying the id of a request
\* that was already resolved changes no future, no caller, not the pending table, no
\* callback and not the connection.
C2_ResolvedAtMostOnce ==
    [][/\ \A k \in Ids : Done(fut[k]) => fut'[k] = fut[k]
       /\ \A m \in Messages :
            (m.idKind = "int" /\ Done(fut[m.idVal]) /\ RecvLoopStep(m))
            => UNCHANGED <<fut, pending, pc, ret, delivered, connected, recv_task>>]_vars

\* A second message for id 1 was read and ignored after id 1 had got its result.
C2_Witness ==
    /\ ev = Event("ignored", 1)
    /\ fut[1].st = "result"
    /\ recv_task = "running"

\* C3: a response without error resolves its call with the result member unchanged
\* ({} when there is none); a response whose error is an object resolves it with a
\* ProbeError of that code and message (-1, "Unknown probe error" when absent);
\* call() returns, or raises, exactly what its future was resolved with.
C3_ResultAndErrorRoundTrip ==
    [][/\ \A m \in Messages :
            (/\ m.shape = "object" /\ m.idKind = "int" /\ m.idVal \in pending
             /\ fut[m.idVal].st = "unresolved"
             /\ RecvLoopStep(m))
            => /\ m.error.kind = "absent" =>
                    /\ fut'[m.idVal].st = "result"
                    /\ fut'[m.idVal].val =
                         (IF m.result = "absent" THEN "empty_object" ELSE m.result)
               /\ m.error.kind = "object" =>
                    /\ fut'[m.idVal].st = "probe_error"
                    /\ fut'[m.idVal].code = (IF m.error.hasCode THEN m.error.code ELSE -1)
                    /\ fut'[m.idVal].message =
                         (IF m.error.hasMessage THEN m.error.message
                          ELSE "Unknown probe error")
       /\ \A k \in Ids :
            CallReturn(k)
            => /\ ret'[k] = fut[k]
               /\ pc'[k] = "returned" <=> fut[k].st = "result"]_vars

\* call("qt.ping") sent as id 1 and answered {"result": {"pong": true}, "id": 1}.
C3_Witness ==
    /\ Len(wire) >= 1 /\ wire[1] = 1
    /\ pc[1] = "returned"
    /\ ret[1] = ResultOf("pong")

\* A call that raised the ProbeError of an error response.
C3_WitnessError ==
    \E k \in Ids : pc[k] = "raised" /\ ret[k] = ProbeError("Method not found", -32601)

\* C4: once the stream has ended and the receive loop has finished, the connection is
\* marked disconnected and no call() is left suspended on an unresolved future.
C4_StreamEndFailsAllCallers ==
    (stream = "closed" /\ recv_task = "done")
    => /\ ~connected
       /\ pending = {}
       /\ Suspended = {}

\* C5: when disconnect() returns the connection is marked disconnected, the pending
\* table is empty, and every call that was unresolved when disconnect() began has been
\* failed with a ConnectionError (unless its caller was cancelled meanwhile).
C5_DisconnectFailsAllCallers ==
    ev.op = "disconnect_return"
    => /\ ~connected
       /\ pending = {}
       /\ \A k \in disc_snap : pc[k] = "cancelled" \/ fut[k].st = "conn_error"

C6_WitnessNeverConnected ==
    /\ ev = Event("disconnect_return", 1)
    /\ ~opened

\* C7: call() on a connection that is not connected raises the "Not connected"
\* ProbeError and changes nothing: no request is sent, no id consumed, no pending
\* entry and no future created.
C7_NotConnectedChangesNothing ==
    [][((~connected \/ ws = "none") /\ Call)
       => /\ ev'.op = "call_refused"
          /\ UNCHANGED <<next_id, pending, fut, pc, ret, wire>>]_vars

\* A call refused after the connection had been connected and was lost or closed.
C7_Witness ==
    /\ ev.op = "call_refused"
    /\ opened
    /\ ~connected

\* C8: while a callback is installed, every message with no id, or an id not in the
\* pending table, is handed to it exactly once, in arrival order.
C8_NotificationsDelivered == delivered = arrived

Malformed ==
    {m \in Messages :
        \/ m.shape \in {"nonjson", "nonobject"}
        \/ m.idKind \in {"str", "unhashable"}
        \/ m.error.kind = "nonobject"}

\* C10: a malformed message is dropped: the loop keeps running, the connection stays
\* connected, and every pending request but the one it correlates to stays pending.
C10_MalformedNotFatal ==
    [][\A m \in Malformed :
          RecvLoopStep(m)
          => /\ recv_task' = "running"
             /\ connected' = connected
             /\ \A k \in pending :
                  (m.idKind = "int" /\ k = m.idVal)
                  \/ (k \in pending' /\ fut'[k] = fut[k])]_vars

\* C11: cancelling the wait of one call removes that call's pending entry and no
\* other, and touches neither the receive loop, the connection nor any other call; a
\* response that arrives later for the cancelled id resolves nothing; a response for
\* another pending id still resolves that call.
C11_CancelRemovesOnlyOwnEntry ==
    [][/\ \A k \in Ids :
            CallCancelled(k)
            => /\ pending' = pending \ {k}
               /\ UNCHANGED <<recv_task, connected, fut>>
               /\ \A j \in Ids \ {k} : pc'[j] = pc[j] /\ ret'[j] = ret[j]
       /\ \A m \in Responses :
            (m.idKind = "int" /\ pc[m.idVal] = "cancelled" /\ RecvLoopStep(m))
            => UNCHANGED <<fut, pending, pc, ret, connected, recv_task>>
       /\ \A m \in Responses :
            (/\ \E k \in Ids : pc[k] = "cancelled"
             /\ m.idKind = "int" /\ m.idVal \in pending /\ fut[m.idVal].st = "unresolved"
             /\ m.error.kind # "nonobject"
             /\ RecvLoopStep(m))
            => /\ Done(fut'[m.idVal])
               /\ recv_task' = "running"]_vars

\* Call 1 was cancelled, call 2 got its own result, and the late response for id 1
\* was read and ignored with the loop still running.
C11_Witness ==
    /\ pc[1] = "cancelled"
    /\ fut[1].st = "unresolved"
    /\ ev = Event("ignored", 1)
    /\ pc[2] = "returned"
    /\ ret[2] = ResultOf("pong")
    /\ recv_task = "running"

----------------------------------------------------------------------------
\* DiscoveryListener (discovery.py)

\* msg.get("pid", 0), msg.get("wsPort", 9222), msg.get("uptime", 0.0)
DefaultPid == 0
DefaultWsPort == 9222
DefaultUptime == 0

\* An announce or goodbye datagram of the discovery protocol: the address it came
\* from (addr[0]) and the members the listener reads. The other members of an
\* announce (appName, qtVersion, hostname, mode) are copied like uptime.
Datagram(address, pid, wsPort, uptime) ==
    [address |-> address, pid |-> pid, wsPort |-> wsPort, uptime |-> uptime]

\* Senders: two probes on one host (pid 7, and one whose datagrams carry no pid or
\* spell out the defaults), and a probe with pid 7 on another host.
Origins ==
    {<<"10.0.0.1", Field(7), Absent>>,
     <<"10.0.0.1", Absent, Absent>>,
     <<"10.0.0.1", Field(DefaultPid), Field(DefaultWsPort)>>,
     <<"10.0.0.2", Field(7), Absent>>}

Announces == {Datagram(o[1], o[2], o[3], u) : o \in Origins, u \in {Absent, Field(5)}}

Goodbyes == {Datagram(o[1], o[2], o[3], Absent) : o \in Origins}

\* The datagrams of the specification of wait_for_probe: two probes, no uptime.
WaitOrigins == {o \in Origins : o[2] = Field(7)}

\* prune_stale(timeout), wait_for_probe(timeout)
PruneTimeouts == {0, 1}
WaitTimeouts == {1, 2}

\* DiscoveredProbe(...) as on_announce builds it
DiscoveredProbe(d) ==
    [address |-> d.address,
     pid |-> Get(d.pid, DefaultPid),
     ws_port |-> Get(d.wsPort, DefaultWsPort),
     uptime |-> Get(d.uptime, DefaultUptime),
     last_seen |-> now]

\* DiscoveredProbe.key: f"{self.address}:{self.pid}:{self.ws_port}"
Key(p) == <<p.address, ":", p.pid, ":", p.ws_port>>

\* on_goodbye: key = f"{source_addr}:{pid}:{ws_port}"
GoodbyeKey(d) ==
    <<d.address, ":", Get(d.pid, DefaultPid), ":", Get(d.wsPort, DefaultWsPort)>>

\* key in self._probes
Known(key) == \E i \in 1..Len(probes) : Key(probes[i]) = key

\* Mutant: an announce always adds an entry.
UpsertAppends(probe) == Append(probes, probe)

\* self._probes[probe.key] = probe: a known key keeps its place in the dict
Upsert(probe) ==
    IF Known(Key(probe))
    THEN [i \in 1..Len(probes) |->
            IF Key(probes[i]) = Key(probe) THEN probe ELSE probes[i]]
    ELSE Append(probes, probe)

\* Mutant: every entry of the same pid is removed, whatever its address and port.
PopSamePid(key) == SelectSeq(probes, LAMBDA p : p.pid # key[3])

\* self._probes.pop(key, None)
Pop(key) == SelectSeq(probes, LAMBDA p : Key(p) # key)

\* Mutant: a probe seen exactly `timeout` ago is stale already.
IsStaleInclusive(p, timeout) == (now - p.last_seen) >= timeout

\* DiscoveredProbe.is_stale
IsStale(p, timeout) == (now - p.last_seen) > timeout

\* The wait_for_probe() in progress when the "probe found" event is set: the future
\* its Event.wait() sleeps on is resolved, its wake-up is scheduled.
Woken(w) == IF w.pc = "waiting" THEN [w EXCEPT !.pc = "woken"] ELSE w

\* on_announce. The found-callbacks run inside a try block and hold no state of
\* the listener.
OnAnnounce(d) ==
    LET probe == DiscoveredProbe(d)
        is_new == ~Known(Key(probe))
    IN  /\ probes' = Upsert(probe)
        /\ found_event' = (is_new \/ found_event)
        /\ waiter' = IF is_new THEN Woken(waiter) ELSE waiter
        /\ ev' = Event(IF is_new THEN "discovered" ELSE "refreshed", 0)
        /\ UNCHANGED <<now, disc_ret, transport, connVars, notification_handler, recVars, sessVars, dlVars>>

\* on_goodbye
OnGoodbye(d) ==
    /\ probes' = Pop(GoodbyeKey(d))
    /\ ev' = Event(IF Known(GoodbyeKey(d)) THEN "departed" ELSE "step", 0)
    /\ UNCHANGED <<now, found_event, waiter, disc_ret, transport, connVars, notification_handler,
                   recVars, sessVars, dlVars>>

\* prune_stale(timeout): the keys of the stale probes, in the order of the dict; each
\* is popped; the list is returned.
PruneStale(timeout) ==
    LET stale == SelectSeq(probes, LAMBDA p : IsStale(p, timeout))
        stale_keys == [i \in 1..Len(stale) |-> Key(stale[i])]
        gone == {stale_keys[i] : i \in 1..Len(stale_keys)}
    IN  /\ probes' = SelectSeq(probes, LAMBDA p : Key(p) \notin gone)
        /\ disc_ret' = [op |-> "prune_stale", how |-> "-", val |-> stale_keys]
        /\ ev' = Event("step", 0)
        /\ UNCHANGED <<now, found_event, waiter, transport, connVars, notification_handler, recVars, sessVars, dlVars>>

\* The monotonic clock advances.
Tick ==
    /\ now < MaxTime
    /\ now' = now + 1
    /\ ev' = Event("step", 0)
    /\ UNCHANGED <<probes, found_event, waiter, disc_ret, transport, connVars, notification_handler,
                   recVars, sessVars, dlVars>>

\* What wait_for_probe returned: how |-> "immediate" (no suspension), "signal" (woken
\* by the event), "timeout" (asyncio.TimeoutError caught); val |-> <<key>> for the
\* registry entry of that key, or <<>> for None.
Returned(how, val) == [op |-> "wait_for_probe", how |-> how, val |-> val]

\* next(iter(self._probes.values())) if self._probes, else None
FirstProbe == IF probes # <<>> THEN <<Key(probes[1])>> ELSE <<>>

\* Mutant: the registry is not looked at before waiting.
WaitForProbeAlwaysWaits(timeout) ==
    /\ waiter.pc = "idle"
    /\ found_event' = FALSE
    /\ waiter' = [pc |-> "waiting", deadline |-> now + timeout]
    /\ ev' = Event("step", 0)
    /\ UNCHANGED <<probes, now, disc_ret, transport, connVars, notification_handler, recVars, sessVars, dlVars>>

\* wait_for_probe(timeout) up to its return or its suspension in asyncio.wait_for
WaitForProbe(timeout) ==
    /\ waiter.pc = "idle"
    /\ IF probes # <<>>
       THEN /\ disc_ret' = Returned("immediate", FirstProbe)
            /\ UNCHANGED <<found_event, waiter>>
       ELSE /\ found_event' = FALSE
            /\ waiter' = [pc |-> "waiting", deadline |-> now + timeout]
            /\ UNCHANGED disc_ret
    /\ ev' = Event("step", 0)
    /\ UNCHANGED <<probes, now, transport, connVars, notification_handler, recVars, sessVars, dlVars>>

\* The woken wait_for_probe() runs again: `if self._probes: return ...`, else falls
\* through to `return None`.
WaitResume ==
    /\ waiter.pc = "woken"
    /\ disc_ret' = Returned("signal", FirstProbe)
    /\ waiter' = NoWaiter
    /\ ev' = Event("step", 0)
    /\ UNCHANGED <<probes, now, found_event, transport, connVars, notification_handler, recVars, sessVars, dlVars>>

\* The timeout of asyncio.wait_for elapses with the event not set: TimeoutError is
\* caught, None is returned.
WaitTimeout ==
    /\ waiter.pc = "waiting"
    /\ now >= waiter.deadline
    /\ disc_ret' = Returned("timeout", <<>>)
    /\ waiter' = NoWaiter
    /\ ev' = Event("step", 0)
    /\ UNCHANGED <<probes, now, found_event, transport, connVars, notification_handler, recVars, sessVars, dlVars>>

\* The registry: datagrams, pruning and the clock.
NextDiscovery ==
    \/ \E d \in Announces : OnAnnounce(d)
    \/ \E d \in Goodbyes : OnGoodbye(d)
    \/ \E t \in PruneTimeouts : PruneStale(t)
    \/ Tick

SpecDiscovery == Init /\ [][NextDiscovery]_vars

\* The registry with a caller of wait_for_probe.
NextWait ==
    \/ \E d \in {a \in Announces : <<a.address, a.pid, a.wsPort>> \in WaitOrigins
                                   /\ a.uptime = Absent} : OnAnnounce(d)
    \/ \E d \in {g \in Goodbyes : <<g.address, g.pid, g.wsPort>> \in WaitOrigins} :
          OnGoodbye(d)
    \/ \E t \in PruneTimeouts : PruneStale(t)
    \/ Tick
    \/ \E t \in WaitTimeouts : WaitForProbe(t)
    \/ WaitResume
    \/ WaitTimeout

SpecWait == Init /\ [][NextWait]_vars

----------------------------------------------------------------------------
\* DiscoveryProtocol.datagram_received

\* bound: the datagrams one endpoint discards
MaxDropped == 2

\* The bytes of a datagram as datagram_received sees them: decode |-> "undecodable"
\* (not UTF-8), "nonjson" (text, not JSON), "nonobject" (JSON, not an object) or
\* "object"; for an object its members "protocol" and "type" and, in body, the
\* members on_announce and on_goodbye read.
Raw(decode, protocol, type, body) ==
    [decode |-> decode, protocol |-> protocol, type |-> type, body |-> body]

Bodies == {Datagram(o[1], o[2], o[3], Absent) : o \in WaitOrigins}

RawDatagrams ==
    {Raw(k, "absent", "absent", b) : k \in {"undecodable", "nonjson", "nonobject"},
                                     b \in {Datagram("10.0.0.1", Absent, Absent, Absent)}}
    \cup {Raw("object", p, t, b) : p \in {"absent", "other", "qtmcp-discovery"},
                                   t \in {"absent", "other", "announce", "goodbye"},
                                   b \in Bodies}

\* Mutant: a datagram that is discarded closes the endpoint.
DiscardFatal(why) ==
    /\ transport.dropped < MaxDropped
    /\ transport' = NoTransport
    /\ ev' = Event(why, 0)
    /\ UNCHANGED <<probes, now, found_event, waiter, disc_ret>>

\* datagram_received is left with nothing done: by `return`, by falling off its
\* end, or ("raised") by the AttributeError of msg.get on a JSON value that is no
\* object, which the event loop logs. The transport stays as it is.
Discard(why) ==
    /\ transport.dropped < MaxDropped
    /\ transport' = [transport EXCEPT !.dropped = @ + 1]
    /\ ev' = Event(why, 0)
    /\ UNCHANGED <<probes, now, found_event, waiter, disc_ret>>

\* datagram_received(data, addr), called by the transport for every datagram
DatagramReceived(data) ==
    /\ transport.running
    /\ IF data.decode \in {"undecodable", "nonjson"} THEN Discard("dropped")
       ELSE IF data.decode = "nonobject" THEN Discard("raised")
       ELSE IF data.protocol # "qtmcp-discovery" THEN Discard("dropped")
       ELSE IF data.type = "announce" THEN OnAnnounce(data.body)
       ELSE IF data.type = "goodbye" THEN OnGoodbye(data.body)
       ELSE Discard("dropped")
    /\ UNCHANGED <<connVars, notification_handler, recVars, sessVars, dlVars>>

\* DiscoveryListener.start: the endpoint is created
ListenerStart ==
    /\ ~transport.running
    /\ transport' = [running |-> TRUE, dropped |-> 0]
    /\ ev' = Event("step", 0)
    /\ UNCHANGED <<probes, now, found_event, waiter, disc_ret>>
    /\ UNCHANGED <<connVars, notification_handler, recVars, sessVars, dlVars>>

\* DiscoveryListener.stop: the transport is closed
ListenerStop ==
    /\ transport.running
    /\ transport' = NoTransport
    /\ ev' = Event("step", 0)
    /\ UNCHANGED <<probes, now, found_event, waiter, disc_ret>>
    /\ UNCHANGED <<connVars, notification_handler, recVars, sessVars, dlVars>>

\* The listener with its endpoint and a caller of wait_for_probe.
NextDatagram ==
    \/ ListenerStart
    \/ ListenerStop
    \/ \E data \in RawDatagrams : DatagramReceived(data)
    \/ Tick
    \/ \E t \in WaitTimeouts : WaitForProbe(t)
    \/ WaitResume
    \/ WaitTimeout

SpecDatagram == Init /\ [][NextDatagram]_vars

----------------------------------------------------------------------------
\* The identity of a registry entry: (source address, pid, ws port)
Identity(p) == <<p.address, p.pid, p.ws_port>>

\* The identity a datagram names.
IdentityOf(d) == <<d.address, Get(d.pid, DefaultPid), Get(d.wsPort, DefaultWsPort)>>

\* C12: the registry never holds two entries of one identity, and an announce for an
\* identity already present changes the number and order of entries in nothing: that
\* entry alone is replaced, carries the uptime of the announce and a last_seen not
\* earlier than before.
C12_OneEntryPerIdentity ==
    [][/\ \A i, j \in 1..Len(probes') :
            Identity(probes'[i]) = Identity(probes'[j]) => i = j
       /\ \A d \in Announces :
            ((\E i \in 1..Len(probes) : Identity(probes[i]) = IdentityOf(d)) /\ OnAnnounce(d))
            => /\ Len(probes') = Len(probes)
               /\ \A i \in 1..Len(probes) :
                    IF Identity(probes[i]) = IdentityOf(d)
                    THEN /\ Identity(probes'[i]) = IdentityOf(d)
                         /\ probes'[i].uptime = Get(d.uptime, DefaultUptime)
                         /\ probes'[i].last_seen >= probes[i].last_seen
                         /\ probes'[i].last_seen = now
                    ELSE probes'[i] = probes[i]]_vars

\* A probe announced again later with another uptime: one entry, the later values,
\* and the other probe of the same pid still there.
C12_Witness ==
    /\ ev.op = "refreshed"
    /\ Len(probes) = 2
    /\ probes[1].uptime = 5
    /\ probes[1].last_seen > 0
    /\ probes[2].last_seen = 0

\* C13: a goodbye removes the entry of the identity (sender address, pid, wsPort) it
\* names, if there is one, and leaves every other entry, and their order, as they
\* were; a goodbye for an identity not in the registry changes nothing.
C13_GoodbyeRemovesOnlyItsEntry ==
    [][\A d \in Goodbyes :
          OnGoodbye(d)
          => /\ probes' = SelectSeq(probes, LAMBDA p : Identity(p) # IdentityOf(d))
             /\ (\A i \in 1..Len(probes) : Identity(probes[i]) # IdentityOf(d))
                => probes' = probes]_vars

\* A goodbye removed one probe and left the probe of the same pid on the other host.
C13_Witness ==
    /\ ev.op = "departed"
    /\ Len(probes) = 1
    /\ probes[1].address = "10.0.0.2"
    /\ probes[1].pid = 7

\* C14: prune_stale(timeout) removes exactly the probes with now - last_seen > timeout
\* and returns exactly their keys; entries leave the registry only by a goodbye or a
\* prune_stale, never by the passing of time.
C14_PruneRemovesExactlyStale ==
    [][/\ \A t \in PruneTimeouts :
            PruneStale(t)
            => /\ probes' = SelectSeq(probes, LAMBDA p : ~(now - p.last_seen > t))
               /\ disc_ret'.op = "prune_stale"
               /\ {disc_ret'.val[i] : i \in 1..Len(disc_ret'.val)}
                    = {Key(probes[i]) : i \in {j \in 1..Len(probes) :
                                                 now - probes[j].last_seen > t}}
               /\ Len(disc_ret'.val) = Len(probes) - Len(probes')
       /\ Len(probes') < Len(probes)
            => \/ \E d \in Goodbyes : OnGoodbye(d)
               \/ \E t \in PruneTimeouts : PruneStale(t)
       /\ now' # now => probes' = probes]_vars

\* prune_stale removed and returned one probe and kept a more recent one.
C14_Witness ==
    /\ disc_ret.op = "prune_stale"
    /\ Len(disc_ret.val) = 1
    /\ Len(probes) = 1
    /\ ~Known(disc_ret.val[1])

\* A probe that was last seen more than a timeout ago and is still registered.
C14_WitnessStaleStays ==
    /\ Len(probes) >= 1
    /\ now - probes[1].last_seen > 1

\* C15: with a probe registered wait_for_probe returns a registered probe at once,
\* without suspending; a wait_for_probe that suspended and saw no "probe found" signal
\* returns only once its timeout has elapsed, and then returns None.
C15_WaitImmediateOrTimeout ==
    [][/\ \A t \in WaitTimeouts :
            (probes # <<>> /\ WaitForProbe(t))
            => /\ disc_ret'.how = "immediate"
               /\ \E i \in 1..Len(probes) : disc_ret'.val = <<Key(probes[i])>>
               /\ waiter'.pc = "idle"
       /\ (waiter.pc = "waiting" /\ waiter'.pc = "idle")
            => /\ now >= waiter.deadline
               /\ disc_ret' = Returned("timeout", <<>>)]_vars

\* wait_for_probe on an empty registry returned None after its timeout; the registry
\* is still empty.
C15_Witness ==
    /\ disc_ret = Returned("timeout", <<>>)
    /\ probes = <<>>
    /\ now >= 1

\* wait_for_probe returned a registered probe without suspending.
C15_WitnessImmediate ==
    /\ disc_ret.op = "wait_for_probe"
    /\ disc_ret.how = "immediate"
    /\ disc_ret.val # <<>>

\* C16: a wait_for_probe woken by the "probe found" signal returns a probe; it
\* returns None only by its timeout.
C16_SignalReturnsProbe ==
    (disc_ret.op = "wait_for_probe" /\ disc_ret.val = <<>>) => disc_ret.how = "timeout"
----------------------------------------------------------------------------
\* EventRecorder (event_recorder.py). Every probe.call is a suspension: an action
\* below runs start() or stop() from the return of one call to the issue of the
\* next. A call returns a result or raises (ProbeError, ConnectionError), which
\* every `except Exception` of the recorder catches. An invocation of start() or
\* stop() runs in one of two slots (rec_op, rec_op2); the specifications that invoke
\* them one at a time use the first only. rec_ret holds what the last one returned
\* until the next begins.

\* TargetSpec(object_id, signals, recursive); smart: signals is None
TargetSpec(object_id, smart, signals, recursive) ==
    [object_id |-> object_id, smart |-> smart, signals |-> signals,
     recursive |-> recursive]

\* The target lists start() is called with.
TargetLists ==
    {<<>>,
     <<TargetSpec("btn", FALSE, <<"clicked">>, FALSE),
       TargetSpec("edit", FALSE, <<"textChanged", "textEdited">>, FALSE)>>,
     <<TargetSpec("panel", FALSE, <<"clicked">>, TRUE)>>,
     <<TargetSpec("input", TRUE, <<>>, FALSE)>>}

\* What qt.objects.info answers: the children of a recursive target, the class of
\* an object. A class name is the sequence of its words ("QRadioButton" is Q, Radio,
\* Button), so that one name can end with another; <<>> is the empty string, which
\* info.get("className", "") also gives for an answer without the member.
ChildLists == {<<>>, <<"btn">>}
ClassNames == {<<"Q", "Radio", "Button">>, <<"Q", "Label">>}

\* One entry of INTERACTIVE_SIGNALS
Entry(class_name, signals) == [cls |-> class_name, signals |-> signals]

\* INTERACTIVE_SIGNALS, in the order of the dict
INTERACTIVE_SIGNALS ==
    <<Entry(<<"Q", "Push", "Button">>, <<"clicked", "toggled">>),
      Entry(<<"Q", "Tool", "Button">>, <<"clicked", "toggled", "triggered">>),
      Entry(<<"Q", "Action">>, <<"triggered", "toggled">>),
      Entry(<<"Q", "Line", "Edit">>, <<"textChanged", "textEdited">>),
      Entry(<<"Q", "Text", "Edit">>, <<"textChanged">>),
      Entry(<<"Q", "Plain", "Text", "Edit">>, <<"textChanged">>),
      Entry(<<"Q", "Check", "Box">>, <<"stateChanged", "toggled">>),
      Entry(<<"Q", "Radio", "Button">>, <<"toggled">>),
      Entry(<<"Q", "Combo", "Box">>, <<"currentIndexChanged", "currentTextChanged">>),
      Entry(<<"Q", "Slider">>, <<"valueChanged">>),
      Entry(<<"Q", "Spin", "Box">>, <<"valueChanged">>),
      Entry(<<"Q", "Double", "Spin", "Box">>, <<"valueChanged">>),
      Entry(<<"Q", "Dial">>, <<"valueChanged">>),
      Entry(<<"Q", "Tab", "Widget">>, <<"currentChanged">>),
      Entry(<<"Q", "Tab", "Bar">>, <<"currentChanged">>),
      Entry(<<"Q", "List", "View">>, <<"clicked", "doubleClicked", "activated">>),
      Entry(<<"Q", "Tree", "View">>,
            <<"clicked", "doubleClicked", "activated", "expanded", "collapsed">>),
      Entry(<<"Q", "Table", "View">>, <<"clicked", "doubleClicked", "activated">>),
      Entry(<<"Q", "List", "Widget">>,
            <<"currentItemChanged", "itemClicked", "itemDoubleClicked">>),
      Entry(<<"Q", "Tree", "Widget">>,
            <<"currentItemChanged", "itemClicked", "itemDoubleClicked">>),
      Entry(<<"Q", "Table", "Widget">>,
            <<"currentCellChanged", "cellClicked", "cellDoubleClicked">>),
      Entry(<<"Q", "Menu">>, <<"triggered">>),
      Entry(<<"Q", "Menu", "Bar">>, <<"triggered">>)>>

FALLBACK_SIGNALS == <<"clicked", "toggled", "triggered">>

\* s.endswith(t)
EndsWith(s, t) ==
    /\ Len(t) <= Len(s)
    /\ SubSeq(s, Len(s) - Len(t) + 1, Len(s)) = t

\* The first index of `found` in the table, 0 if there is none.
RECURSIVE FirstFrom(_, _)
FirstFrom(i, found) ==
    IF i > Len(INTERACTIVE_SIGNALS) THEN 0
    ELSE IF i \in found THEN i
    ELSE FirstFrom(i + 1, found)

\* Mutant: no suffix match, an unknown class gets the fallback list.
SmartSignalsExactOnly(class_name) ==
    LET exact == {i \in 1..Len(INTERACTIVE_SIGNALS) :
                     INTERACTIVE_SIGNALS[i].cls = class_name}
    IN  IF exact # {}
        THEN INTERACTIVE_SIGNALS[FirstFrom(1, exact)].signals
        ELSE FALLBACK_SIGNALS

\* _resolve_smart_signals, once the class name is known: `class_name in
\* INTERACTIVE_SIGNALS`, then the loop over the items with the two endswith tests.
SmartSignals(class_name) ==
    LET exact == {i \in 1..Len(INTERACTIVE_SIGNALS) :
                     INTERACTIVE_SIGNALS[i].cls = class_name}
        related == {i \in 1..Len(INTERACTIVE_SIGNALS) :
                       \/ EndsWith(class_name, INTERACTIVE_SIGNALS[i].cls)
                       \/ EndsWith(INTERACTIVE_SIGNALS[i].cls, class_name)}
    IN  IF exact # {}
        THEN INTERACTIVE_SIGNALS[FirstFrom(1, exact)].signals
        ELSE IF related # {}
        THEN INTERACTIVE_SIGNALS[FirstFrom(1, related)].signals
        ELSE FALLBACK_SIGNALS

\* The notifications of the probe.
Methods ==
    {"qtmcp.signalEmitted", "qtmcp.objectCreated", "qtmcp.objectDestroyed",
     "qtmcp.eventCaptured", "qtmcp.other"}

\* round(x, 3) of a time in seconds, for the recorder's clock `now` in thirds of a
\* millisecond: the nearest whole millisecond
Round3(x) == (2 * x + 3) \div 6

\* timestamp = time.monotonic() - self._start_time
Timestamp == now - start_time

\* RecordedEvent / RecordedInputEvent, with the session it was buffered in.
RecordedEvent(event_type) ==
    [cls |-> "RecordedEvent", event_type |-> event_type, session |-> session,
     timestamp |-> Timestamp]
RecordedInputEvent(event_type) ==
    [cls |-> "RecordedInputEvent", event_type |-> event_type, session |-> session,
     timestamp |-> Timestamp]

\* to_dict(): "t" is the rounded timestamp; "type" is the event type of a
\* RecordedEvent and "event" for a RecordedInputEvent, whose own type goes to the
\* member "event".
ToDict(e) ==
    [t |-> Round3(e.timestamp),
     type |-> IF e.cls = "RecordedInputEvent" THEN "event" ELSE e.event_type,
     event |-> IF e.cls = "RecordedInputEvent" THEN e.event_type ELSE "-"]

\* Mutant: objectDestroyed is recorded like objectCreated.
HandledWithDestroyed(method) ==
    IF ~recording THEN <<>>
    ELSE IF method = "qtmcp.signalEmitted" THEN <<RecordedEvent("signal")>>
    ELSE IF method = "qtmcp.objectCreated" /\ include_lifecycle
    THEN <<RecordedEvent("object_created")>>
    ELSE IF method = "qtmcp.objectDestroyed" /\ include_lifecycle
    THEN <<RecordedEvent("object_destroyed")>>
    ELSE IF method = "qtmcp.eventCaptured"
    THEN <<RecordedInputEvent("MouseButtonPress")>>
    ELSE <<>>

\* _handle_notification: what is appended to self._events for a notification
Handled(method) ==
    IF ~recording THEN <<>>
    ELSE IF method = "qtmcp.signalEmitted" THEN <<RecordedEvent("signal")>>
    ELSE IF method = "qtmcp.objectCreated" /\ include_lifecycle
    THEN <<RecordedEvent("object_created")>>
    ELSE IF method = "qtmcp.objectDestroyed" /\ include_lifecycle
    THEN <<>>
    ELSE IF method = "qtmcp.eventCaptured"
    THEN <<RecordedInputEvent("MouseButtonPress")>>
    ELSE <<>>

Slots == {1, 2}

\* The invocation running in a slot.
OpOf(s) == IF s = 1 THEN rec_op ELSE rec_op2

\* The recorder, the callback slot of the connection and the probe, as one value,
\* seen by the invocation of a slot; `reassigned` tells that the step assigned a new
\* list to self._subscriptions.
Rec(s) ==
    [recording |-> recording, events |-> events, subscriptions |-> subscriptions,
     include_lifecycle |-> include_lifecycle, capture_events |-> capture_events,
     start_time |-> start_time, session |-> session, handler |-> notification_handler,
     op |-> OpOf(s), ret |-> rec_ret, server |-> server, ev |-> Event("step", 0),
     reassigned |-> FALSE]

\* The cleanup loop of the other invocation, `for sub_id in self._subscriptions`,
\* iterates over the list object it began with: it also meets what this step appended
\* to that object, and nothing of a list assigned since.
Iterating(other, r) ==
    IF other.pc = "unsubscribe" /\ other.live
    THEN IF r.reassigned
         THEN [other EXCEPT !.live = FALSE]
         ELSE [other EXCEPT !.todo = @ \o SubSeq(r.subscriptions, Len(subscriptions) + 1,
                                                 Len(r.subscriptions))]
    ELSE other

Commit(s, r) ==
    /\ rec_op' = IF s = 1 THEN r.op ELSE Iterating(rec_op, r)
    /\ rec_op2' = IF s = 2 THEN r.op ELSE Iterating(rec_op2, r)
    /\ recording' = r.recording
    /\ events' = r.events
    /\ subscriptions' = r.subscriptions
    /\ include_lifecycle' = r.include_lifecycle
    /\ capture_events' = r.capture_events
    /\ start_time' = r.start_time
    /\ session' = r.session
    /\ notification_handler' = r.handler
    /\ rec_ret' = r.ret
    /\ server' = r.server
    /\ ev' = r.ev
    /\ UNCHANGED <<connVars, discVars, sessVars, dlVars>>

\* start(): the loops `for target in targets`, `for obj_id in objects_to_subscribe`
\* and `for signal in signals`, run from the top of the innermost one to the next
\* probe.call, or to the return statement.
RECURSIVE Advance(_)
Advance(o) ==
    IF o.sigs # <<>>
    THEN [o EXCEPT !.pc = "subscribe", !.attempted = @ + 1]
    ELSE IF o.objs # <<>>
    THEN LET next == [o EXCEPT !.obj = Head(o.objs), !.objs = Tail(o.objs)]
         IN  IF Head(o.targets).smart
             THEN [next EXCEPT !.pc = "className"]
             ELSE Advance([next EXCEPT !.sigs = Head(o.targets).signals])
    ELSE IF o.in_target
    THEN Advance([o EXCEPT !.total_subs = @ + o.count, !.count = 0,
                           !.in_target = FALSE, !.targets = Tail(@)])
    ELSE IF o.targets # <<>>
    THEN IF Head(o.targets).recursive
         THEN [o EXCEPT !.pc = "children", !.in_target = TRUE]
         ELSE Advance([o EXCEPT !.in_target = TRUE, !.resolved = @ + 1,
                                !.objs = <<Head(o.targets).object_id>>])
    ELSE [o EXCEPT !.pc = "return"]

\* return {"recording": True, "subscriptions": total_subs, "targets": len(targets),
\*         "capture_events": capture_events}
StartReturn(r) ==
    [r EXCEPT !.op = NoOp,
              !.ret = [op |-> "start", recording |-> TRUE,
                       subscriptions |-> r.op.total_subs, targets |-> r.op.ntargets,
                       capture_events |-> r.op.arg_capture,
                       event_count |-> 0, events |-> <<>>,
                       old |-> r.op.old, restart |-> r.op.restart,
                       discarded |-> r.op.discarded,
                       succeeded |-> r.op.succeeded, attempted |-> r.op.attempted,
                       queries |-> r.op.queries, resolved |-> r.op.resolved,
                       duration |-> 0, teardown |-> r.op.teardown]]

\* The subscription loops of start(), then its return.
SubscribeTargets(r) ==
    LET o == Advance(r.op)
    IN  IF o.pc = "return" THEN StartReturn([r EXCEPT !.op = o]) ELSE [r EXCEPT !.op = o]

\* if capture_events: await probe.call("qt.events.startCapture")
StartCapture(r) ==
    IF r.op.arg_capture THEN [r EXCEPT !.op.pc = "capture"] ELSE SubscribeTargets(r)

\* Mutant: the buffer of the previous session is kept.
StartResetKeepsEvents(r) ==
    LET r1 == [r EXCEPT !.recording = TRUE, !.subscriptions = <<>>,
                        !.include_lifecycle = r.op.arg_lifecycle,
                        !.capture_events = r.op.arg_capture,
                        !.start_time = now,
                        !.session = @ + 1, !.handler = "callback",
                        !.server.subs = {}, !.op.discarded = Len(r.events),
                        !.op.sess = r.session + 1, !.reassigned = TRUE]
    IN  IF r.op.arg_lifecycle THEN [r1 EXCEPT !.op.pc = "setLifecycle"]
        ELSE StartCapture(r1)

\* start(), from `self._recording = True` to its next probe.call: the buffer and the
\* list are reset, the settings stored, the handler installed. server.subs follows
\* the subscriptions of the recording that begins here.
StartReset(r) ==
    LET r1 == [r EXCEPT !.recording = TRUE, !.events = <<>>, !.subscriptions = <<>>,
                        !.include_lifecycle = r.op.arg_lifecycle,
                        !.capture_events = r.op.arg_capture,
                        !.start_time = now,
                        !.session = @ + 1, !.handler = "callback",
                        !.server.subs = {}, !.op.discarded = Len(r.events),
                        !.op.sess = r.session + 1, !.reassigned = TRUE]
    IN  IF r.op.arg_lifecycle THEN [r1 EXCEPT !.op.pc = "setLifecycle"]
        ELSE StartCapture(r1)

\* stop(): self._recording = False; the events are serialized and returned with the
\* duration taken when stop() began, the buffer is cleared.
StopFinish(r) ==
    [r EXCEPT !.recording = FALSE,
              !.events = <<>>,
              !.op = NoOp,
              !.ret = [op |-> "stop", recording |-> FALSE,
                       subscriptions |-> 0, targets |-> 0, capture_events |-> FALSE,
                       event_count |-> Len(r.events),
                       events |-> [i \in 1..Len(r.events) |-> ToDict(r.events[i])],
                       old |-> r.op.old, restart |-> TRUE, discarded |-> 0,
                       succeeded |-> 0, attempted |-> 0, queries |-> <<>>,
                       resolved |-> 0, duration |-> r.op.duration,
                       teardown |-> r.op.teardown]]

\* Mutant: stop() ends the input capture whether the session asked for it or not.
StopCaptureAlways(r) ==
    [r EXCEPT !.op.pc = "capture", !.op.teardown = @ \cup {"qt.events.stopCapture"}]

\* if self._capture_events: await probe.call("qt.events.stopCapture")
StopCapture(r) ==
    IF r.capture_events
    THEN [r EXCEPT !.op.pc = "capture", !.op.teardown = @ \cup {"qt.events.stopCapture"}]
    ELSE StopFinish(r)

\* stop(), after the cleanup: probe.on_notification(None), then the lifecycle call
StopUninstall(r) ==
    LET r1 == [r EXCEPT !.handler = "none"]
    IN  IF r.include_lifecycle
        THEN [r1 EXCEPT !.op.pc = "setLifecycle",
                        !.op.teardown = @ \cup {"qt.signals.setLifecycle"}]
        ELSE StopCapture(r1)

\* _cleanup_subscriptions is over: self._subscriptions = []; back in the caller.
AfterCleanup(r) ==
    LET r1 == [r EXCEPT !.subscriptions = <<>>, !.reassigned = TRUE]
    IN  IF r.op.op = "start" THEN StartReset(r1) ELSE StopUninstall(r1)

\* _cleanup_subscriptions: for sub_id in self._subscriptions: await probe.call(...)
\* server.unsubscribed collects the unsubscribe calls of the running cleanup.
Cleanup(r) ==
    IF r.subscriptions # <<>>
    THEN [r EXCEPT !.op.pc = "unsubscribe", !.op.todo = r.subscriptions,
                   !.op.live = TRUE, !.server.unsubscribed = {}]
    ELSE AfterCleanup(r)

\* Mutant: the first unsubscribe that fails ends the loop.
UnsubscribedStopsAtFailure(r, ok) ==
    LET sub_id == Head(r.op.todo)
        r1 == [r EXCEPT !.server.unsubscribed = @ \cup {sub_id},
                        !.server.subs = IF ok THEN @ \ {sub_id} ELSE @,
                        !.op.todo = IF ok THEN Tail(@) ELSE <<>>]
    IN  IF r1.op.todo # <<>> THEN r1 ELSE AfterCleanup(r1)

\* The unsubscribe call of the cleanup loop returns, or raises and is logged; the
\* loop goes on with the next subscription.
Unsubscribed(r, ok) ==
    LET sub_id == Head(r.op.todo)
        r1 == [r EXCEPT !.server.unsubscribed = @ \cup {sub_id},
                        !.server.subs = IF ok THEN @ \ {sub_id} ELSE @,
                        !.op.todo = Tail(@)]
    IN  IF r1.op.todo # <<>> THEN r1 ELSE AfterCleanup(r1)

\* Mutant: every subscribe attempt is counted.
SubscribedCountsAll(r, out) ==
    LET sub_id == <<r.op.sess, r.op.succeeded + 1>>
        r1 == IF out = "id"
              THEN [r EXCEPT !.server.subs = @ \cup {sub_id},
                             !.subscriptions = Append(@, sub_id),
                             !.op.count = @ + 1,
                             !.op.succeeded = @ + 1]
              ELSE [r EXCEPT !.op.count = @ + 1]
    IN  SubscribeTargets([r1 EXCEPT !.op.sigs = Tail(@)])

\* The subscribe call returns: out = "id" (a result with a subscriptionId, which is
\* appended and counted), "empty" (a result without one: nothing to track), "error"
\* (the call raised: logged and skipped). The probe's id for the n-th subscription
\* of a start() is the pair of the recording that start() began and n.
Subscribed(r, out) ==
    LET sub_id == <<r.op.sess, r.op.succeeded + 1>>
        r1 == IF out = "id"
              THEN [r EXCEPT !.server.subs = @ \cup {sub_id},
                             !.subscriptions = Append(@, sub_id),
                             !.op.count = @ + 1,
                             !.op.succeeded = @ + 1]
              ELSE r
    IN  SubscribeTargets([r1 EXCEPT !.op.sigs = Tail(@)])

\* start(probe, targets, include_lifecycle, capture_events), up to its first
\* probe.call or its return
Start(s, targets, lifecycle, capture) ==
    /\ OpOf(s).op = "none"
    /\ session < MaxSessions
    /\ LET o == [Locals EXCEPT !.op = "start", !.arg_lifecycle = lifecycle,
                             !.arg_capture = capture, !.ntargets = Len(targets),
                             !.targets = targets, !.old = subscriptions,
                             !.restart = recording]
           r == [Rec(s) EXCEPT !.op = o, !.ret = NoResult]
       IN  Commit(s, IF recording THEN Cleanup(r) ELSE StartReset(r))

\* stop(probe), up to its first probe.call or its return
Stop(s) ==
    /\ OpOf(s).op = "none"
    /\ IF ~recording
       THEN Commit(s, [Rec(s) EXCEPT !.ret = NotRecording])
       ELSE Commit(s, Cleanup([Rec(s) EXCEPT !.ret = NoResult,
                                             !.op = [Locals EXCEPT !.op = "stop",
                                                                   !.old = subscriptions,
                                                                   !.restart = TRUE,
                                                                   !.duration = Round3(Timestamp)]]))

\* await probe.call("qt.signals.unsubscribe", ...) is over
UnsubscribeReturns(s, ok) ==
    /\ OpOf(s).pc = "unsubscribe"
    /\ Commit(s, Unsubscribed(Rec(s), ok))

\* await probe.call("qt.signals.setLifecycle", {"enabled": ...}) is over
SetLifecycleReturns(s, ok) ==
    /\ OpOf(s).pc = "setLifecycle"
    /\ LET r == [Rec(s) EXCEPT !.server.lifecycle =
                                   IF ok THEN OpOf(s).op = "start" ELSE @]
       IN  Commit(s, IF OpOf(s).op = "start" THEN StartCapture(r) ELSE StopCapture(r))

\* await probe.call("qt.events.startCapture" / "qt.events.stopCapture") is over
CaptureReturns(s, ok) ==
    /\ OpOf(s).pc = "capture"
    /\ LET r == [Rec(s) EXCEPT !.server.capture = IF ok THEN OpOf(s).op = "start" ELSE @]
       IN  Commit(s, IF OpOf(s).op = "start" THEN SubscribeTargets(r) ELSE StopFinish(r))

\* _subscribe_target: the qt.objects.info call for the children of a recursive target
\* is over; a failure is logged and the target alone is subscribed.
ChildrenReturns(s, ok, children) ==
    /\ OpOf(s).pc = "children"
    /\ LET objects_to_subscribe ==
               <<Head(OpOf(s).targets).object_id>> \o (IF ok THEN children ELSE <<>>)
       IN  Commit(s, SubscribeTargets(
               [Rec(s) EXCEPT !.op.objs = objects_to_subscribe,
                           !.op.resolved = @ + Len(objects_to_subscribe)]))

\* _resolve_smart_signals: the qt.objects.info call for the class is over; a failure
\* gives FALLBACK_SIGNALS. rec_op.queries keeps what the calls of this start() gave.
ClassNameReturns(s, ok, class_name) ==
    /\ OpOf(s).pc = "className"
    /\ LET signals == IF ok THEN SmartSignals(class_name) ELSE FALLBACK_SIGNALS
           answer == [ok |-> ok, cls |-> IF ok THEN class_name ELSE <<>>]
       IN  Commit(s, SubscribeTargets([Rec(s) EXCEPT !.op.sigs = signals,
                                                     !.op.queries = Append(@, answer)]))

\* await probe.call("qt.signals.subscribe", ...) is over
SubscribeReturns(s, out) ==
    /\ OpOf(s).pc = "subscribe"
    /\ Commit(s, Subscribed(Rec(s), out))

\* Mutant: the event is put at the front of the buffer.
NotifiedPrepends(method, limit) ==
    /\ Len(events) + Len(Handled(method)) <= limit
    /\ events' = Handled(method) \o events
    /\ ev' = Event("step", 0)
    /\ UNCHANGED <<recording, subscriptions, include_lifecycle, capture_events,
                   start_time, session, rec_op, rec_op2, rec_ret, server,
                   notification_handler>>
    /\ UNCHANGED <<connVars, discVars, sessVars, dlVars>>

\* _handle_notification(method, params) with a buffer of at most `limit` events: it
\* touches nothing but the buffer. ev marks an objectDestroyed that reached the
\* lifecycle branch.
Notified(method, limit) ==
    /\ Len(events) + Len(Handled(method)) <= limit
    /\ events' = events \o Handled(method)
    /\ ev' = Event(IF method = "qtmcp.objectDestroyed" /\ recording /\ include_lifecycle
                   THEN method ELSE "step", 0)
    /\ UNCHANGED <<recording, subscriptions, include_lifecycle, capture_events,
                   start_time, session, rec_op, rec_op2, rec_ret, server,
                   notification_handler>>
    /\ UNCHANGED <<connVars, discVars, sessVars, dlVars>>

\* _handle_notification(method, params)
HandleNotification(method) == Notified(method, MaxEvents)

NextRecorder ==
    \/ \E t \in TargetLists, lifecycle, capture \in BOOLEAN : Start(1, t, lifecycle, capture)
    \/ Stop(1)
    \/ \E ok \in BOOLEAN : UnsubscribeReturns(1, ok)
    \/ \E ok \in BOOLEAN : SetLifecycleReturns(1, ok)
    \/ \E ok \in BOOLEAN : CaptureReturns(1, ok)
    \/ \E ok \in BOOLEAN, children \in ChildLists : ChildrenReturns(1, ok, children)
    \/ \E ok \in BOOLEAN, class_name \in ClassNames : ClassNameReturns(1, ok, class_name)
    \/ \E out \in {"id", "empty", "error"} : SubscribeReturns(1, out)
    \/ \E method \in Methods : HandleNotification(method)

SpecRecorder == Init /\ [][NextRecorder]_vars

----------------------------------------------------------------------------
\* The recorder with its clock

\* bound: events in the buffer of a timed session
MaxTimedEvents == 2

\* One target with one explicit signal.
TimedTargetLists == {<<TargetSpec("btn", FALSE, <<"clicked">>, FALSE)>>}

\* A notification that is buffered as a RecordedEvent, one that is buffered as a
\* RecordedInputEvent, and one that is not buffered.
TimedMethods == {"qtmcp.signalEmitted", "qtmcp.eventCaptured", "qtmcp.other"}

NextTimed ==
    \/ \E t \in TimedTargetLists : Start(1, t, FALSE, FALSE)
    \/ Stop(1)
    \/ \E ok \in BOOLEAN : UnsubscribeReturns(1, ok)
    \/ \E out \in {"id", "error"} : SubscribeReturns(1, out)
    \/ \E method \in TimedMethods : Notified(method, MaxTimedEvents)
    \/ Tick

SpecTimed == Init /\ [][NextTimed]_vars

\* The recorder on one target with either lifecycle setting and every notification
\* method, without input capture.
NextLifecycle ==
    \/ \E lifecycle \in BOOLEAN : Start(1, <<TargetSpec("btn", FALSE, <<"clicked">>, FALSE)>>,
                                          lifecycle, FALSE)
    \/ Stop(1)
    \/ \E ok \in BOOLEAN : UnsubscribeReturns(1, ok)
    \/ \E ok \in BOOLEAN : SetLifecycleReturns(1, ok)
    \/ \E out \in {"id", "error"} : SubscribeReturns(1, out)
    \/ \E method \in Methods : HandleNotification(method)

SpecLifecycle == Init /\ [][NextLifecycle]_vars

\* start() on targets without a signal list, with the class names that meet every
\* branch of _resolve_smart_signals: a table key, a name that ends with a key, a name
\* several keys end with, the empty name, a name related to no key.
SmartTargetLists ==
    {<<TargetSpec("input", TRUE, <<>>, FALSE)>>,
     <<TargetSpec("panel", TRUE, <<>>, TRUE)>>}

SmartClassNames ==
    {<<"Q", "Push", "Button">>, <<"Custom", "Q", "Tab", "Widget">>, <<"Widget">>,
     <<>>, <<"Q", "Label">>}

NextSmart ==
    \/ \E t \in SmartTargetLists : Start(1, t, FALSE, FALSE)
    \/ Stop(1)
    \/ \E ok \in BOOLEAN : UnsubscribeReturns(1, ok)
    \/ \E ok \in BOOLEAN, children \in ChildLists : ChildrenReturns(1, ok, children)
    \/ \E ok \in BOOLEAN, class_name \in SmartClassNames :
           ClassNameReturns(1, ok, class_name)
    \/ \E out \in {"id", "empty", "error"} : SubscribeReturns(1, out)

SpecSmart == Init /\ [][NextSmart]_vars

\* start() and stop() invoked while another invocation is suspended at a probe call:
\* the recording tools are coroutines of one event loop and the recorder has no lock.
ConcurrentTargetLists ==
    {<<>>, <<TargetSpec("edit", FALSE, <<"textChanged", "textEdited">>, FALSE)>>}

NextConcurrent ==
    \/ \E s \in Slots, t \in ConcurrentTargetLists : Start(s, t, FALSE, FALSE)
    \/ \E s \in Slots : Stop(s)
    \/ \E s \in Slots, ok \in BOOLEAN : UnsubscribeReturns(s, ok)
    \/ \E s \in Slots, out \in {"id", "empty", "error"} : SubscribeReturns(s, out)

SpecConcurrent == Init /\ [][NextConcurrent]_vars

\* C17: when start() is called while Recording, then at its return (and until the
\* next start() or stop()) no event buffered before the reset is left in the buffer,
\* the tracked subscriptions are exactly those the subscribe calls of this start()
\* created, each active on the probe, and none of the previous subscriptions is
\* tracked, an unsubscribe having been issued for each of them.
C17_RestartDiscardsAndRetracks ==
    (rec_ret.op = "start" /\ rec_ret.restart) =>
        /\ recording
        /\ \A i \in 1..Len(events) : events[i].session = session
        /\ Len(subscriptions) = rec_ret.succeeded
        /\ \A i \in 1..Len(subscriptions) :
               /\ subscriptions[i] = <<session, i>>
               /\ subscriptions[i] \in server.subs
        /\ \A i \in 1..Len(rec_ret.old) :
               /\ rec_ret.old[i] \in server.unsubscribed
               /\ \A j \in 1..Len(subscriptions) : subscriptions[j] # rec_ret.old[i]

\* A restart that found a buffered event and two subscriptions, and created one.
C17_Witness ==
    /\ rec_ret.op = "start" /\ rec_ret.restart
    /\ rec_ret.discarded = 1
    /\ Len(rec_ret.old) = 2
    /\ events = <<>>
    /\ Len(subscriptions) = 1

C18_WitnessDestroyed ==
    /\ ev.op = "qtmcp.objectDestroyed"
    /\ recording /\ include_lifecycle
    /\ events = <<RecordedEvent("object_created")>>

\* stop() of a recording with lifecycle disabled returned no event.
C18_WitnessDisabled ==
    /\ rec_ret.op = "stop" /\ rec_ret.restart
    /\ ~include_lifecycle
    /\ rec_ret.events = <<>>

\* C19: a stop() from Recording ends only by finishing: whatever the probe calls
\* did, an unsubscribe was issued for every subscription that was tracked, the
\* notification callback is uninstalled, the recorder is Idle with an empty
\* subscription list and an empty buffer, and the result holds the serialized
\* buffer, event_count being its length.
C19_StopCompletesTeardown ==
    [][/\ (rec_op.op = "stop" /\ rec_op'.op # "stop") => ~recording'
       /\ (recording /\ ~recording') =>
              /\ rec_op'.op = "none"
              /\ rec_ret'.op = "stop" /\ ~rec_ret'.recording
              /\ subscriptions' = <<>>
              /\ events' = <<>>
              /\ notification_handler' = "none"
              /\ \A i \in 1..Len(rec_ret'.old) :
                     rec_ret'.old[i] \in server'.unsubscribed
              /\ rec_ret'.events = [i \in 1..Len(events) |-> ToDict(events[i])]
              /\ rec_ret'.event_count = Len(events)]_vars

\* stop() finished with one event although the first of two unsubscribe calls and
\* the call disabling lifecycle notifications failed.
C19_Witness ==
    /\ rec_ret.op = "stop" /\ rec_ret.restart
    /\ ~recording /\ notification_handler = "none"
    /\ Len(rec_ret.old) = 2
    /\ rec_ret.old[1] \in server.subs /\ rec_ret.old[2] \notin server.subs
    /\ include_lifecycle /\ server.lifecycle
    /\ rec_ret.event_count = 1

\* C20: a start() ends only by returning, with the recorder Recording, whatever the
\* lifecycle, capture, children and subscribe calls did; the "subscriptions" count
\* it returns is the number of subscribe calls that returned a subscription id,
\* and the length of the tracked list.
C20_StartCountsSuccesses ==
    [][/\ (rec_op.op = "start" /\ rec_op'.op # "start") => rec_ret'.op = "start"
       /\ rec_ret'.op = "start" =>
              /\ rec_op'.op = "none"
              /\ recording' /\ rec_ret'.recording
              /\ rec_ret'.subscriptions = rec_ret'.succeeded
              /\ rec_ret'.subscriptions = Len(subscriptions')
              /\ rec_ret'.succeeded <= rec_ret'.attempted]_vars

\* start() returned 2 for three subscribe calls, one of which failed, after the
\* calls enabling lifecycle notifications and input capture failed.
C20_Witness ==
    /\ rec_ret.op = "start"
    /\ recording
    /\ include_lifecycle /\ ~server.lifecycle
    /\ capture_events /\ ~server.capture
    /\ rec_ret.attempted = 3
    /\ rec_ret.subscriptions = 2
    /\ Len(subscriptions) = 2

\* The keys of the table related to a class name by suffix match.
Related(class_name) ==
    {i \in 1..Len(INTERACTIVE_SIGNALS) :
        \/ EndsWith(class_name, INTERACTIVE_SIGNALS[i].cls)
        \/ EndsWith(INTERACTIVE_SIGNALS[i].cls, class_name)}

\* The smart-default list for the answer of a class query: the entry of the class
\* name, else the entry of the first key related to it, else the fallback list, which
\* is also the list when the query failed.
DefaultList(answer) ==
    IF ~answer.ok THEN FALLBACK_SIGNALS
    ELSE IF \E i \in 1..Len(INTERACTIVE_SIGNALS) : INTERACTIVE_SIGNALS[i].cls = answer.cls
    THEN INTERACTIVE_SIGNALS[
             CHOOSE i \in 1..Len(INTERACTIVE_SIGNALS) :
                 INTERACTIVE_SIGNALS[i].cls = answer.cls].signals
    ELSE IF Related(answer.cls) # {}
    THEN INTERACTIVE_SIGNALS[
             CHOOSE i \in Related(answer.cls) :
                 \A j \in Related(answer.cls) : i <= j].signals
    ELSE FALLBACK_SIGNALS

\* The number of signals of the default lists of a sequence of answers.
RECURSIVE TotalSignals(_)
TotalSignals(answers) ==
    IF answers = <<>> THEN 0
    ELSE Len(DefaultList(Head(answers))) + TotalSignals(Tail(answers))

\* C21: for targets without a signal list, the signals start() still has to try for
\* the object at hand are always a tail of the default list of its class answer, one
\* class query is made per resolved object, and at the return the number of subscribe
\* attempts is the number of signals of those lists; when all of them succeeded it is
\* also the "subscriptions" count (2 for one object of a class with two defaults).
C21_SmartDefaultAttempts ==
    /\ rec_op.pc = "subscribe" =>
           \E k \in 1..Len(DefaultList(rec_op.queries[Len(rec_op.queries)])) :
               rec_op.sigs = SubSeq(DefaultList(rec_op.queries[Len(rec_op.queries)]), k,
                                    Len(DefaultList(rec_op.queries[Len(rec_op.queries)])))
    /\ rec_ret.op = "start" =>
           /\ Len(rec_ret.queries) = rec_ret.resolved
           /\ rec_ret.attempted = TotalSignals(rec_ret.queries)
           /\ rec_ret.succeeded = rec_ret.attempted =>
                  rec_ret.subscriptions = rec_ret.attempted

\* One object whose class has two default signals: 2 attempts, both successful, and a
\* count of 2.
C21_Witness ==
    /\ rec_ret.op = "start"
    /\ rec_ret.queries = <<[ok |-> TRUE, cls |-> <<"Q", "Push", "Button">>]>>
    /\ rec_ret.attempted = 2
    /\ rec_ret.subscriptions = 2
    /\ Len(subscriptions) = 2

\* A class name that several keys end with got the list of the first of them, and a
\* child whose class query failed got the fallback list: 1 + 3 attempts.
C21_WitnessSuffix ==
    /\ rec_ret.op = "start"
    /\ rec_ret.queries = <<[ok |-> TRUE, cls |-> <<"Widget">>], [ok |-> FALSE, cls |-> <<>>]>>
    /\ rec_ret.attempted = 4

\* C22: the tracked subscriptions are those of one recording only, and whenever the
\* recorder is Idle its tracked list is empty and every subscription the probe still
\* holds for it has had an unsubscribe issued.
C22_OneSessionAtATime ==
    /\ \A i, j \in 1..Len(subscriptions) : subscriptions[i][1] = subscriptions[j][1]
    /\ ~recording =>
           /\ subscriptions = <<>>
           /\ \A sub_id \in server.subs : sub_id \in server.unsubscribed

----------------------------------------------------------------------------
\* Session state (server.py): the current connection and the operations on it

\* bound: ProbeConnection objects whose connect() succeeds
MaxConns == 2

Urls == {"ws://localhost:9222", "ws://localhost:9223"}

\* ProbeConnection(ws_url) after connect(): is_connected is self._connected
ProbeConnection(ws_url) == [url |-> ws_url, connected |-> TRUE]

OpReturned(op) == [kind |-> "returned", op |-> op]

OpRaised(op, error) == [kind |-> "raised", op |-> op, error |-> error]

\* disconnect() up to its first suspension: self._connected = False
Disconnecting(i) == [conns EXCEPT ![i].connected = FALSE]

\* Mutant: the previous connection is left as it is.
ConnectBeginKeepsPrevious(o) ==
    /\ srv_op' = [o EXCEPT !.pc = "connect"]
    /\ UNCHANGED <<_probe, conns>>

\* connect_to_probe up to its first suspension, within the operation o
ConnectBegin(o) ==
    IF _probe # 0 /\ conns[_probe].connected
    THEN /\ conns' = Disconnecting(_probe)
         /\ srv_op' = [o EXCEPT !.pc = "disconnect"]
         /\ UNCHANGED _probe
    ELSE /\ srv_op' = [o EXCEPT !.pc = "connect"]
         /\ UNCHANGED <<_probe, conns>>

\* a tool calls connect_to_probe(ws_url)
ConnectToProbe(ws_url) ==
    /\ srv_op = NoCall
    /\ Len(conns) < MaxConns
    /\ ConnectBegin([op |-> "connect_to_probe", pc |-> "start", url |-> ws_url])
    /\ srv_ret' = NoOutcome
    /\ UNCHANGED <<connVars, notification_handler, ev, discVars, recVars, dlVars>>

\* a tool, or the shutdown, calls disconnect_probe()
DisconnectProbe ==
    /\ srv_op = NoCall
    /\ IF _probe # 0
       THEN /\ conns' = Disconnecting(_probe)
            /\ srv_op' = [op |-> "disconnect_probe", pc |-> "disconnect"]
            /\ srv_ret' = NoOutcome
       ELSE /\ srv_ret' = OpReturned("disconnect_probe")
            /\ UNCHANGED <<conns, srv_op>>
    /\ UNCHANGED _probe
    /\ UNCHANGED <<connVars, notification_handler, ev, discVars, recVars, dlVars>>

----------------------------------------------------------------------------
\* _wait_for_probe_ready (times in half seconds, the clock starts at the call)

\* bound: the longest timeout a caller passes
MaxTimeout == 24

\* delay = 0.5
InitialDelay == 1

\* max_delay = 4.0
max_delay == 8

\* process.stderr.read(4096)
ReadLimit == 4096

\* asyncio.wait_for(..., timeout=1.0)
ReadTimeout == 2

\* stderr_text[:500]
StderrLimit == 500

Least(a, b) == IF a <= b THEN a ELSE b

Timeouts == {0, 3, MaxTimeout}

\* bound: the longest a connect or disconnect that was begun takes to end
MaxAttemptTime == 2

\* lengths of what the launched process wrote to stderr
StderrLens == {0, 3, StderrLimit + 1, ReadLimit + 1}

ReturnCodes == {0, 1}

\* the locals of _wait_for_probe_ready; process is "none" (no handle),
\* "running" or "exited" (returncode is not None)
WaitLocals(ws_url, timeout, process) ==
    [op |-> "wait", pc |-> "start", url |-> ws_url, timeout |-> timeout,
     deadline |-> timeout, t |-> 0, delay |-> InitialDelay, attempt |-> 0,
     remaining |-> 0, began |-> 0, pause |-> 0, until |-> 0,
     process |-> process, returncode |-> 0]

\* raise ConnectionError(f"Timed out after {timeout:.0f}s ...")
TimedOut(o) ==
    [kind |-> "raised", op |-> "wait", error |-> "ConnectionError",
     message |-> "Timed out", timeout |-> o.timeout, at |-> o.t,
     deadline |-> o.deadline, attempt |-> o.attempt, process |-> o.process]

\* raise ConnectionError(f"Target process exited with code {returncode}[: {stderr_text[:500]}]")
ProcessExited(o, stderr_text) ==
    [kind |-> "raised", op |-> "wait", error |-> "ConnectionError",
     message |-> "Target process exited", code |-> o.returncode,
     stderr |-> Least(stderr_text, StderrLimit), attempt |-> o.attempt,
     process |-> o.process]

\* return, after connect_to_probe returned
Ready(o) ==
    [kind |-> "returned", op |-> "wait", url |-> o.url, at |-> o.t,
     deadline |-> o.deadline, attempt |-> o.attempt, process |-> o.process]

\* Mutant: the deadline is never reached.
ExpiredNever(o) == FALSE

\* remaining = deadline - loop.time(); if remaining <= 0
Expired(o) == o.deadline - o.t <= 0

\* Mutant: the delay doubles without a cap.
NextDelayUncapped(delay) == delay * 2

\* delay = min(delay * 2, max_delay)
NextDelay(delay) == Least(delay * 2, max_delay)

\* the top of `while True` with the locals o, up to the next suspension
RetryLoop(o) ==
    IF Expired(o)
    THEN /\ srv_op' = NoCall
         /\ srv_ret' = TimedOut(o)
         /\ UNCHANGED <<_probe, conns>>
    ELSE IF o.process = "exited"
    THEN /\ srv_op' = [o EXCEPT !.pc = "read_stderr", !.remaining = o.deadline - o.t,
                                !.until = o.t + ReadTimeout]
         /\ srv_ret' = NoOutcome
         /\ UNCHANGED <<_probe, conns>>
    ELSE /\ ConnectBegin([o EXCEPT !.attempt = @ + 1, !.remaining = o.deadline - o.t,
                                   !.began = o.t])
         /\ srv_ret' = NoOutcome

\* except Exception: await asyncio.sleep(min(delay, remaining))
AttemptFailed(o) ==
    [o EXCEPT !.pc = "sleep", !.pause = Least(o.delay, o.remaining),
              !.until = o.t + Least(o.delay, o.remaining)]

\* _wait_for_probe_ready(ws_url, timeout, discovery, process) up to its first suspension
WaitForProbeReady(ws_url, timeout, discovery, process) ==
    /\ srv_op = NoCall
    /\ Len(conns) < MaxConns
    /\ LET o == WaitLocals(ws_url, timeout, process)
       IN  IF discovery /\ o.deadline - o.t > 0
           THEN /\ srv_op' = [o EXCEPT !.pc = "phase1", !.until = o.t + Least(o.deadline - o.t, timeout)]
                /\ srv_ret' = NoOutcome
                /\ UNCHANGED <<_probe, conns>>
           ELSE RetryLoop(o)
    /\ UNCHANGED <<connVars, notification_handler, ev, discVars, recVars, dlVars>>

\* discovery.wait_for_probe returns: a probe was announced, or its timeout ran out
Phase1Returns ==
    /\ srv_op.op = "wait"
    /\ srv_op.pc = "phase1"
    /\ RetryLoop(srv_op)
    /\ UNCHANGED <<connVars, notification_handler, ev, discVars, recVars, dlVars>>

\* asyncio.sleep returns, not before the pause has passed
SleepReturns ==
    /\ srv_op.op = "wait"
    /\ srv_op.pc = "sleep"
    /\ srv_op.t >= srv_op.until
    /\ RetryLoop([srv_op EXCEPT !.delay = NextDelay(@)])
    /\ UNCHANGED <<connVars, notification_handler, ev, discVars, recVars, dlVars>>

\* the read of stderr ends: with data, or with the timeout or another exception
StderrReturns(ok, len) ==
    /\ srv_op.op = "wait"
    /\ srv_op.pc = "read_stderr"
    /\ srv_op' = NoCall
    /\ srv_ret' = ProcessExited(srv_op, IF ok THEN Least(len, ReadLimit) ELSE 0)
    /\ UNCHANGED <<_probe, conns>>
    /\ UNCHANGED <<connVars, notification_handler, ev, discVars, recVars, dlVars>>

\* the launched process exits while the wait is suspended
ProcessExits(code) ==
    /\ srv_op.op = "wait"
    /\ srv_op.process = "running"
    /\ srv_op' = [srv_op EXCEPT !.process = "exited", !.returncode = code]
    /\ UNCHANGED <<_probe, conns, srv_ret>>
    /\ UNCHANGED <<connVars, notification_handler, ev, discVars, recVars, dlVars>>

\* half a second passes while the wait is suspended
TimePasses ==
    /\ srv_op.op = "wait"
    /\ \/ srv_op.pc \in {"connect", "disconnect"} /\ srv_op.t < srv_op.began + MaxAttemptTime
       \/ srv_op.pc \in {"phase1", "sleep", "read_stderr"} /\ srv_op.t < srv_op.until
    /\ srv_op' = [srv_op EXCEPT !.t = @ + 1]
    /\ UNCHANGED <<_probe, conns, srv_ret>>
    /\ UNCHANGED <<connVars, notification_handler, ev, discVars, recVars, dlVars>>

----------------------------------------------------------------------------
\* create_server.lifespan: the cleanup of the finally block

\* the locals of the cleanup; failed is the set of steps whose failure was logged
CleanupLocals(discovery, process) ==
    [op |-> "shutdown", pc |-> "start", discovery |-> discovery, process |-> process,
     failed |-> {}, discovery_stopped |-> FALSE, terminated |-> FALSE, killed |-> FALSE]

\* the finally block has been left
Stopped == [op |-> "stopped", pc |-> "idle"]

CleanupOutcome(kind, o) ==
    [kind |-> kind, op |-> "shutdown", failed |-> o.failed, discovery |-> o.discovery,
     process |-> o.process, discovery_stopped |-> o.discovery_stopped,
     terminated |-> o.terminated, killed |-> o.killed]

\* the cleanup from `if _discovery is not None` on; Process.terminate() of a
\* process that has exited raises ProcessLookupError
AfterDisconnect(o) ==
    LET stopped == [o EXCEPT !.discovery_stopped = o.discovery]
    IN  IF stopped.process = "none"
        THEN /\ srv_op' = Stopped
             /\ srv_ret' = CleanupOutcome("returned", stopped)
        ELSE IF stopped.process = "exited"
        THEN /\ srv_op' = Stopped
             /\ srv_ret' = CleanupOutcome("raised", [stopped EXCEPT !.failed = @ \cup {"terminate"}])
        ELSE /\ srv_op' = [stopped EXCEPT !.pc = "process_wait", !.terminated = TRUE]
             /\ srv_ret' = NoOutcome

\* await disconnect_probe() of the cleanup, up to its first suspension
CleanupDisconnect(o) ==
    IF _probe # 0
    THEN /\ conns' = Disconnecting(_probe)
         /\ srv_op' = [o EXCEPT !.pc = "disconnect"]
         /\ srv_ret' = NoOutcome
    ELSE /\ AfterDisconnect(o)
         /\ UNCHANGED conns

\* the server shuts down: the finally block of lifespan begins
Shutdown(is_recording, discovery, process) ==
    /\ srv_op = NoCall
    /\ IF is_recording /\ _probe # 0 /\ conns[_probe].connected
       THEN /\ srv_op' = [CleanupLocals(discovery, process) EXCEPT !.pc = "recorder_stop"]
            /\ srv_ret' = NoOutcome
            /\ UNCHANGED conns
       ELSE CleanupDisconnect(CleanupLocals(discovery, process))
    /\ UNCHANGED _probe
    /\ UNCHANGED <<connVars, notification_handler, ev, discVars, recVars, dlVars>>

\* await _recorder.stop(_probe) returns or raises; the exception is logged
RecorderStopReturns(ok) ==
    /\ srv_op.op = "shutdown"
    /\ srv_op.pc = "recorder_stop"
    /\ CleanupDisconnect([srv_op EXCEPT !.failed = IF ok THEN @ ELSE @ \cup {"recorder_stop"}])
    /\ UNCHANGED _probe
    /\ UNCHANGED <<connVars, notification_handler, ev, discVars, recVars, dlVars>>

\* asyncio.wait_for(process.wait(), timeout=5.0) returns, or times out: process.kill()
ProcessWaitReturns(timed_out) ==
    /\ srv_op.op = "shutdown"
    /\ srv_op.pc = "process_wait"
    /\ srv_op' = Stopped
    /\ srv_ret' = CleanupOutcome("returned", [srv_op EXCEPT !.killed = timed_out])
    /\ UNCHANGED <<_probe, conns>>
    /\ UNCHANGED <<connVars, notification_handler, ev, discVars, recVars, dlVars>>

----------------------------------------------------------------------------
\* The suspensions shared by the session operations

\* await _probe.disconnect() returns, or raises out of ws.close()
DisconnectReturns(ok) ==
    /\ srv_op.pc = "disconnect"
    /\ CASE srv_op.op = "connect_to_probe" ->
                /\ _probe' = IF ok THEN 0 ELSE _probe
                /\ srv_op' = IF ok THEN [srv_op EXCEPT !.pc = "connect"] ELSE NoCall
                /\ srv_ret' = IF ok THEN NoOutcome
                              ELSE OpRaised("connect_to_probe", "disconnect")
         [] srv_op.op = "disconnect_probe" ->
                /\ _probe' = IF ok THEN 0 ELSE _probe
                /\ srv_op' = NoCall
                /\ srv_ret' = IF ok THEN OpReturned("disconnect_probe")
                              ELSE OpRaised("disconnect_probe", "disconnect")
         [] srv_op.op = "wait" ->
                /\ _probe' = IF ok THEN 0 ELSE _probe
                /\ srv_op' = IF ok THEN [srv_op EXCEPT !.pc = "connect"]
                              ELSE AttemptFailed(srv_op)
                /\ srv_ret' = NoOutcome
         [] srv_op.op = "shutdown" ->
                /\ _probe' = IF ok THEN 0 ELSE _probe
                /\ IF ok
                   THEN AfterDisconnect(srv_op)
                   ELSE /\ srv_op' = Stopped
                        /\ srv_ret' = CleanupOutcome("raised",
                                          [srv_op EXCEPT !.failed = @ \cup {"disconnect"}])
    /\ UNCHANGED conns
    /\ UNCHANGED <<connVars, notification_handler, ev, discVars, recVars, dlVars>>

\* Mutant: a connect that fails puts the connection made last back in place.
ConnectReturnsRestores(ok) ==
    /\ srv_op.pc = "connect"
    /\ IF ok
       THEN /\ conns' = Append(conns, ProbeConnection(srv_op.url))
            /\ _probe' = Len(conns) + 1
            /\ srv_op' = NoCall
            /\ srv_ret' = IF srv_op.op = "wait" THEN Ready(srv_op)
                          ELSE OpReturned("connect_to_probe")
       ELSE /\ srv_op' = IF srv_op.op = "wait" THEN AttemptFailed(srv_op) ELSE NoCall
            /\ srv_ret' = IF srv_op.op = "wait" THEN NoOutcome
                          ELSE OpRaised("connect_to_probe", "connect")
            /\ _probe' = Len(conns)
            /\ conns' = [i \in 1..Len(conns) |->
                            IF i = Len(conns) THEN ProbeConnection(conns[i].url)
                            ELSE conns[i]]
    /\ UNCHANGED <<connVars, notification_handler, ev, discVars, recVars, dlVars>>

\* await conn.connect() returns: _probe = conn; or it raises
ConnectReturns(ok) ==
    /\ srv_op.pc = "connect"
    /\ IF ok
       THEN /\ conns' = Append(conns, ProbeConnection(srv_op.url))
            /\ _probe' = Len(conns) + 1
            /\ srv_op' = NoCall
            /\ srv_ret' = IF srv_op.op = "wait" THEN Ready(srv_op)
                          ELSE OpReturned("connect_to_probe")
       ELSE /\ srv_op' = IF srv_op.op = "wait" THEN AttemptFailed(srv_op) ELSE NoCall
            /\ srv_ret' = IF srv_op.op = "wait" THEN NoOutcome
                          ELSE OpRaised("connect_to_probe", "connect")
            /\ UNCHANGED <<_probe, conns>>
    /\ UNCHANGED <<connVars, notification_handler, ev, discVars, recVars, dlVars>>

\* the stream of a connection ends: its receive loop sets self._connected = False
StreamEnds(i) ==
    /\ conns[i].connected
    /\ conns' = [conns EXCEPT ![i].connected = FALSE]
    /\ UNCHANGED <<_probe, srv_op, srv_ret>>
    /\ UNCHANGED <<connVars, notification_handler, ev, discVars, recVars, dlVars>>

NextSession ==
    \/ \E ws_url \in Urls : ConnectToProbe(ws_url)
    \/ DisconnectProbe
    \/ \E ok \in BOOLEAN : DisconnectReturns(ok)
    \/ \E ok \in BOOLEAN : ConnectReturns(ok)
    \/ \E i \in 1..Len(conns) : StreamEnds(i)
    \/ \E is_recording, discovery \in BOOLEAN, process \in {"none", "running", "exited"} :
              Shutdown(is_recording, discovery, process)
    \/ \E ok \in BOOLEAN : RecorderStopReturns(ok)
    \/ \E timed_out \in BOOLEAN : ProcessWaitReturns(timed_out)

SpecSession == Init /\ [][NextSession]_vars

\* The readiness wait, called with or without a connection made before
NextReady ==
    \/ \E ws_url \in Urls : ConnectToProbe(ws_url)
    \/ \E ok \in BOOLEAN : DisconnectReturns(ok)
    \/ \E ok \in BOOLEAN : ConnectReturns(ok)
    \/ \E i \in 1..Len(conns) : StreamEnds(i)
    \/ \E ws_url \in Urls, timeout \in Timeouts, discovery \in BOOLEAN,
          process \in {"none", "running", "exited"} :
              WaitForProbeReady(ws_url, timeout, discovery, process)
    \/ Phase1Returns
    \/ SleepReturns
    \/ \E ok \in BOOLEAN, len \in StderrLens : StderrReturns(ok, len)
    \/ \E code \in ReturnCodes : ProcessExits(code)
    \/ TimePasses

SpecReady == Init /\ [][NextReady]_vars

\* The event loop resumes every suspended step of the wait, time passes, and a
\* connect or disconnect that was begun ends (with either outcome)
SpecReadyLive ==
    /\ SpecReady
    /\ WF_vars(TimePasses)
    /\ WF_vars(Phase1Returns)
    /\ WF_vars(SleepReturns)
    /\ WF_vars(\E ok \in BOOLEAN, len \in StderrLens : StderrReturns(ok, len))
    /\ WF_vars(\E ok \in BOOLEAN : ConnectReturns(ok))
    /\ WF_vars(\E ok \in BOOLEAN : DisconnectReturns(ok))

----------------------------------------------------------------------------
\* What a tool sees from require_probe() and probe.call(): the failures

\* ProbeError.__init__(message, code=-1, data=None), as the caller holds it
ProbeErrorObject(message, code, data) ==
    [class |-> "ProbeError", message |-> message, code |-> code, data |-> data]

\* the future's ConnectionError("WebSocket closed") of the receive loop
WebSocketClosed ==
    [class |-> "ConnectionError", message |-> "WebSocket closed", code |-> 0, data |-> "None"]

\* raise ProbeError("Not connected to probe")
NotConnectedError == ProbeErrorObject("Not connected to probe", -1, "None")

\* raise ProbeError("No probe connected. Use qtmcp_list_probes ...")
NoProbeError == ProbeErrorObject("No probe connected", -1, "None")

\* the "error" objects a probe can put in a response: "message", "code" and "data"
\* each absent or present
ErrorObjects ==
    [message : {[has |-> FALSE, v |-> ""]} \cup {Field(text) : text \in {"Method not found",
                                                      NotConnectedError.message,
                                                      NoProbeError.message}},
     code : {[has |-> FALSE, v |-> 0]} \cup {Field(n) : n \in {-32601, -1}},
     data : {[has |-> FALSE, v |-> ""]} \cup {Field(v) : v \in {"detail"}}]

\* ProbeError.from_jsonrpc(error)
from_jsonrpc(error) ==
    [class |-> "ProbeError",
     message |-> IF error.message.has THEN error.message.v ELSE "Unknown probe error",
     code |-> IF error.code.has THEN error.code.v ELSE -1,
     data |-> IF error.data.has THEN error.data.v ELSE "None"]

\* an exception reaches the tool; origin tells where it was made ("local": by the
\* check for a connected probe, "remote": from an error response, "stream")
Failed(op, origin, exception) ==
    [kind |-> "raised", op |-> op, origin |-> origin, exception |-> exception]

\* require_probe()
RequireProbe ==
    /\ srv_op = NoCall
    /\ srv_ret' = IF _probe = 0 \/ ~conns[_probe].connected
                  THEN Failed("require_probe", "local", NoProbeError)
                  ELSE OpReturned("require_probe")
    /\ UNCHANGED <<_probe, conns, srv_op>>
    /\ UNCHANGED <<connVars, notification_handler, ev, discVars, recVars, dlVars>>

\* call() on the connection i a tool holds, up to its suspension
ProbeCall(i) ==
    /\ srv_op = NoCall
    /\ IF ~conns[i].connected
       THEN /\ srv_ret' = Failed("call", "local", NotConnectedError)
            /\ UNCHANGED srv_op
       ELSE /\ srv_op' = [op |-> "call", pc |-> "waiting", conn |-> i]
            /\ srv_ret' = NoOutcome
    /\ UNCHANGED <<_probe, conns>>
    /\ UNCHANGED <<connVars, notification_handler, ev, discVars, recVars, dlVars>>

\* the response with the call's id and an "error" member arrives
ErrorResponse(error) ==
    /\ srv_op.op = "call"
    /\ conns[srv_op.conn].connected
    /\ srv_op' = NoCall
    /\ srv_ret' = Failed("call", "remote", from_jsonrpc(error))
    /\ UNCHANGED <<_probe, conns>>
    /\ UNCHANGED <<connVars, notification_handler, ev, discVars, recVars, dlVars>>

\* the response carries a result
ResultResponse ==
    /\ srv_op.op = "call"
    /\ conns[srv_op.conn].connected
    /\ srv_op' = NoCall
    /\ srv_ret' = OpReturned("call")
    /\ UNCHANGED <<_probe, conns>>
    /\ UNCHANGED <<connVars, notification_handler, ev, discVars, recVars, dlVars>>

\* the stream ended before the response: the receive loop failed the future
CallFails ==
    /\ srv_op.op = "call"
    /\ ~conns[srv_op.conn].connected
    /\ srv_op' = NoCall
    /\ srv_ret' = Failed("call", "stream", WebSocketClosed)
    /\ UNCHANGED <<_probe, conns>>
    /\ UNCHANGED <<connVars, notification_handler, ev, discVars, recVars, dlVars>>

NextFailures ==
    \/ \E ws_url \in Urls : ConnectToProbe(ws_url)
    \/ DisconnectProbe
    \/ \E ok \in BOOLEAN : DisconnectReturns(ok)
    \/ \E ok \in BOOLEAN : ConnectReturns(ok)
    \/ \E i \in 1..Len(conns) : StreamEnds(i)
    \/ RequireProbe
    \/ \E i \in 1..Len(conns) : ProbeCall(i)
    \/ \E error \in ErrorObjects : ErrorResponse(error)
    \/ ResultResponse
    \/ CallFails

SpecFailures == Init /\ [][NextFailures]_vars

----------------------------------------------------------------------------
\* download_and_extract (download.py)

\* bound: lines of the SHA256SUMS file
MaxLines == 2

\* the archive contents a server can deliver, named by the digits of their SHA-256
ArchiveData == {"a3f1", "77c0"}

\* a hexadecimal string: its digits, written in upper or in lower case
Hex(digits, upper) == [digits |-> digits, upper |-> upper]

\* str.lower
Lower(h) == [h EXCEPT !.upper = FALSE]

\* hashlib.sha256(...).hexdigest() of a file with the given content
Sha256(data) == Hex(data, FALSE)

\* a word of a SHA256SUMS line: the text after its leading asterisks, and their number
Word(stars, text) == [stars |-> stars, text |-> text]

\* str.lstrip("*")
Lstrip(word) == word.text

\* get_archive_filename(version, platform_name, arch)
archive_filename == "qtmcp-qt6.8-linux-x64.tar.gz"

\* the lines of a SHA256SUMS file, each split into its parts
Lines ==
    {<<Hex(d, FALSE), Word(0, archive_filename)>> : d \in ArchiveData}
    \cup {<<Hex("a3f1", TRUE), Word(1, archive_filename)>>,
          <<Hex("a3f1", FALSE), Word(0, "qtmcp-qt5.15-linux-x64.tar.gz")>>,
          <<Hex("77c0", FALSE), Word(0, "old"), Word(0, archive_filename)>>,
          <<Hex("77c0", FALSE)>>}

RECURSIVE SumsOfLength(_)
SumsOfLength(n) ==
    IF n = 0 THEN {<<>>}
    ELSE {Append(c, l) : c \in SumsOfLength(n - 1), l \in Lines}

Sums == UNION {SumsOfLength(n) : n \in 0..MaxLines}

\* checksums[filename] = hash_value
Put(checksums, filename, hash_value) ==
    {e \in checksums : e[1] # filename} \cup {<<filename, hash_value>>}

\* parse_checksums: the dict as a set of (filename, hash) pairs
RECURSIVE parse_checksums(_, _)
parse_checksums(content, checksums) ==
    IF content = <<>> THEN checksums
    ELSE LET parts == Head(content)
         IN  parse_checksums(Tail(content),
                 IF Len(parts) >= 2
                 THEN Put(checksums, Lstrip(parts[Len(parts)]), parts[1])
                 ELSE checksums)

NoHash == [has |-> FALSE, v |-> Hex("", FALSE)]

\* checksums.get(archive_filename)
ExpectedHash(checksums) ==
    IF \E e \in checksums : e[1] = archive_filename
    THEN Field((CHOOSE e \in checksums : e[1] = archive_filename)[2])
    ELSE NoHash

\* Mutant: every file passes.
verify_checksum_always(data, expected_hash) == TRUE

\* verify_checksum(filepath, expected_hash) on a file with the given content
verify_checksum(data, expected_hash) == Lower(Sha256(data)) = Lower(expected_hash)

\* download_and_extract(..., verify) up to the first request
DownloadAndExtract(verify) ==
    /\ dl.pc = "idle"
    /\ dl' = [pc |-> IF verify THEN "checksums" ELSE "download", file |-> dl.file,
              extracted |-> "none", ret |-> "none", verify |-> verify,
              sums |-> <<>>, expected_hash |-> NoHash, data |-> "none"]
    /\ UNCHANGED <<connVars, notification_handler, ev, discVars, recVars, sessVars>>

\* the request for SHA256SUMS ends: with its content, or with an HTTP or network error
ChecksumsFetched(ok, content) ==
    /\ dl.pc = "checksums"
    /\ LET expected_hash == ExpectedHash(parse_checksums(content, {}))
       IN  IF ok /\ expected_hash.has
           THEN dl' = [dl EXCEPT !.pc = "download", !.sums = content,
                                 !.expected_hash = expected_hash]
           ELSE dl' = [dl EXCEPT !.pc = "idle", !.sums = IF ok THEN content ELSE <<>>,
                                 !.ret = "DownloadError"]
    /\ UNCHANGED <<connVars, notification_handler, ev, discVars, recVars, sessVars>>

\* download_file ends: "refused" (urlopen raised, nothing written), "broken" (the
\* transfer failed after the file was opened) or "ok"; then the verification
ArchiveDownloaded(how, data) ==
    /\ dl.pc = "download"
    /\ CASE how = "refused" -> dl' = [dl EXCEPT !.pc = "idle", !.ret = "DownloadError"]
         [] how = "broken" ->
                dl' = [dl EXCEPT !.pc = "idle", !.ret = "DownloadError", !.file = "partial"]
         [] how = "ok" ->
                IF dl.verify /\ dl.expected_hash.has
                      /\ ~verify_checksum(data, dl.expected_hash.v)
                THEN dl' = [dl EXCEPT !.pc = "idle", !.ret = "ChecksumError",
                                      !.file = "none", !.data = data]
                ELSE dl' = [dl EXCEPT !.pc = "extract", !.file = data, !.data = data]
    /\ UNCHANGED <<connVars, notification_handler, ev, discVars, recVars, sessVars>>

\* extract_archive ends, with everything or only a part extracted; the archive is
\* unlinked either way
Extracted(ok) ==
    /\ dl.pc = "extract"
    /\ dl' = [dl EXCEPT !.pc = "idle", !.file = "none", !.extracted = dl.file,
                        !.ret = IF ok THEN "returned" ELSE "DownloadError"]
    /\ UNCHANGED <<connVars, notification_handler, ev, discVars, recVars, sessVars>>

NextDownload ==
    \/ \E verify \in BOOLEAN : DownloadAndExtract(verify)
    \/ \E ok \in BOOLEAN, content \in Sums : ChecksumsFetched(ok, content)
    \/ \E how \in {"refused", "broken", "ok"}, data \in ArchiveData :
           ArchiveDownloaded(how, data)
    \/ \E ok \in BOOLEAN : Extracted(ok)

SpecDownload == Init /\ [][NextDownload]_vars

----------------------------------------------------------------------------
\* C23: at every moment of any sequence of connect_to_probe and disconnect_probe
\* operations, a ProbeConnection made by the session that is connected is the
\* session's current one (_probe), so at most one is connected; in particular the
\* previously current connection is no longer connected when a new one becomes
\* current.
C23_AtMostOneConnected ==
    \A i \in 1..Len(conns) : conns[i].connected => i = _probe

\* connect_to_probe has returned with a second connection current and connected,
\* the first one disconnected
C23_Witness ==
    /\ srv_ret = OpReturned("connect_to_probe")
    /\ Len(conns) = 2
    /\ _probe = 2
    /\ conns[2].connected
    /\ ~conns[1].connected

\* C24: whenever the shutdown cleanup has ended and the only operations that failed
\* in it are the stop of the recorder and the disconnect of the probe, it ended
\* without raising, the discovery listener (if any) was stopped and the launched
\* process (if any, still running) was terminated.
C24_CleanupCompletes ==
    (srv_ret.op = "shutdown" /\ srv_ret.failed \subseteq {"recorder_stop", "disconnect"}) =>
        /\ srv_ret.kind = "returned"
        /\ srv_ret.discovery => srv_ret.discovery_stopped
        /\ srv_ret.process = "running" => srv_ret.terminated

\* the wait in progress
Waiting == srv_op.op = "wait"

\* the step in which the wait returns leaves the session's current connection
\* connected to the URL the wait was given
ReturnsConnected ==
    (Waiting /\ srv_ret'.op = "wait" /\ srv_ret'.kind = "returned") =>
        /\ srv_op.pc = "connect"
        /\ _probe' # 0
        /\ conns'[_probe'].connected
        /\ conns'[_probe'].url = srv_op.url

\* a "timed out" failure happens at or after the deadline, every connect attempt
\* began before it, and the deadline is the timeout counted from the call
BoundedByDeadline ==
    /\ (srv_ret.op = "wait" /\ srv_ret.kind = "raised" /\ srv_ret.message = "Timed out") =>
           srv_ret.at >= srv_ret.deadline
    /\ (Waiting /\ srv_op.attempt > 0) => srv_op.began < srv_op.deadline
    /\ Waiting => srv_op.deadline = srv_op.timeout

\* C25: every readiness wait ends; the step in which it returns is the success of a
\* connect and leaves the session's current connection connected to the given URL;
\* it fails with "Timed out" only once the deadline (the timeout, counted from the
\* call) is reached; and no connect attempt begins at or after the deadline.
C25_WaitBoundedAndTerminates ==
    /\ [][ReturnsConnected]_vars
    /\ []BoundedByDeadline
    /\ Waiting ~> ~Waiting

\* the wait returned after at least one failed attempt, connected to its URL
C25_Witness ==
    /\ srv_ret.op = "wait"
    /\ srv_ret.kind = "returned"
    /\ srv_ret.attempt > 1
    /\ _probe # 0
    /\ conns[_probe].connected
    /\ conns[_probe].url = srv_ret.url

\* the wait failed with "Timed out" after attempts that all failed
C25_WitnessTimedOut ==
    /\ srv_ret.op = "wait"
    /\ srv_ret.kind = "raised"
    /\ srv_ret.message = "Timed out"
    /\ srv_ret.attempt > 1

\* a wait that failed while the launched process was known to have exited failed
\* with the error that carries the exit code and at most StderrLimit characters
\* of stderr
ExitSurfaced ==
    (srv_ret.op = "wait" /\ srv_ret.kind = "raised" /\ srv_ret.process = "exited") =>
        /\ srv_ret.message = "Target process exited"
        /\ srv_ret.code \in ReturnCodes
        /\ srv_ret.stderr <= StderrLimit

\* an iteration that starts with the process exited starts no connect attempt
NoAttemptOnDeadTarget ==
    (Waiting /\ srv_op.process = "exited" /\ srv_op.pc \in {"phase1", "sleep"}
             /\ srv_op'.op = "wait") =>
        srv_op'.pc \in {srv_op.pc, "read_stderr"}

\* C26: whenever an iteration of the retry loop starts with a process handle whose
\* process has exited, the wait makes no further connect attempt and fails with the
\* error that surfaces the exit code and at most 500 characters of stderr.
C26_ExitedProcessAborts ==
    /\ []ExitSurfaced
    /\ [][NoAttemptOnDeadTarget]_vars

\* 0.5s, 1s, 2s, 4s in half seconds
Pauses == <<1, 2, 4, 8>>

\* the back-off after the k-th failed attempt: doubling, then 4s for good
Backoff(k) == IF k <= Len(Pauses) THEN Pauses[k] ELSE Pauses[Len(Pauses)]

\* C27: the pause after the k-th failed connect attempt of a readiness wait is
\* 0.5s, 1s, 2s, 4s, 4s, ... for k = 1, 2, 3, 4, 5, ..., or the time that remained
\* to the deadline when that attempt began if that is less.
C27_BackoffPauses ==
    (Waiting /\ srv_op.pc = "sleep") =>
        srv_op.pause = Least(Backoff(srv_op.attempt), srv_op.deadline - srv_op.began)

\* the pause after the fifth failed attempt is 4s, with more than 4s left
C27_Witness ==
    /\ Waiting
    /\ srv_op.pc = "sleep"
    /\ srv_op.attempt = 5
    /\ srv_op.pause = max_delay
    /\ srv_op.deadline - srv_op.began > max_delay

\* a pause cut down to the time that remained when the attempt began
C27_WitnessLimited ==
    /\ Waiting
    /\ srv_op.pc = "sleep"
    /\ srv_op.attempt = 2
    /\ srv_op.pause = 1
    /\ srv_op.t > srv_op.began

\* C28: no failure made from a remote error response equals, in what the caller
\* holds (class, message, code, data), the failure of call() on a connection that is
\* not connected or the failure of require_probe() without a connected probe.
C28_NotConnectedDistinguishable ==
    (srv_ret.kind = "raised" /\ srv_ret.op = "call" /\ srv_ret.origin = "remote") =>
        srv_ret.exception \notin {NotConnectedError, NoProbeError}

\* the lines of a SHA256SUMS content that name the archive
EntriesFor(content) ==
    {i \in 1..Len(content) :
        Len(content[i]) >= 2 /\ content[i][Len(content[i])].text = archive_filename}

\* the archive data is the one the SHA256SUMS entry for the archive names (the last
\* such entry, hexadecimal digits compared without regard to case)
Matches(data, content) ==
    /\ EntriesFor(content) # {}
    /\ LET i == CHOOSE i \in EntriesFor(content) : \A j \in EntriesFor(content) : j <= i
       IN  content[i][1].digits = data

\* C29: with verification enabled, download_and_extract is about to extract, or has
\* extracted, only an archive whose SHA-256 matches the SHA256SUMS entry for it; when
\* the downloaded archive does not match, the call ends with ChecksumError, nothing
\* extracted, and no archive file in the output directory.
C29_VerifiedBeforeExtract ==
    dl.pc # "idle" \/ dl.ret # "none" =>
        /\ (dl.verify /\ (dl.pc = "extract" \/ dl.extracted # "none")) =>
               Matches(dl.data, dl.sums)
        /\ (dl.verify /\ dl.pc = "idle" /\ dl.data # "none" /\ ~Matches(dl.data, dl.sums)) =>
               /\ dl.ret = "ChecksumError"
               /\ dl.extracted = "none"
               /\ dl.file = "none"
        /\ dl.ret = "ChecksumError" => (dl.verify /\ ~Matches(dl.data, dl.sums))

\* a verified archive was extracted, its entry written in upper case with an asterisk
C29_Witness ==
    /\ dl.ret = "returned"
    /\ dl.verify
    /\ dl.extracted = "a3f1"
    /\ dl.sums = << <<Hex("a3f1", TRUE), Word(1, archive_filename)>> >>

\* a download that does not match the entry ended with ChecksumError, nothing
\* extracted and the archive unlinked
C29_WitnessMismatch ==
    /\ dl.ret = "ChecksumError"
    /\ dl.extracted = "none"
    /\ dl.file = "none"
    /\ dl.data = "77c0"
    /\ Len(dl.sums) = 2

\* the response m carries the id of a call that is pending and unresolved, while
\* another call is pending too
Answers(m) ==
    /\ m.shape = "object"
    /\ m.idKind = "int"
    /\ m.idVal \in pending
    /\ ~Done(fut[m.idVal])
    /\ pending \ {m.idVal} # {}

\* C30: whenever the receive loop reads a response to a pending, unresolved call
\* while other calls are pending -- in whatever order they were sent -- that call
\* is resolved in the same step, with a result or a ProbeError, and the future
\* of every other call is left as it was; what a call returns or raises is the
\* resolution of its own future.
C30_ResolvedOnArrivalOwnIdOnly ==
    /\ [][\A m \in Responses :
            (Answers(m) /\ RecvLoopStep(m)) =>
                /\ fut'[m.idVal].st \in {"result", "probe_error"}
                /\ \A k \in Ids \ {m.idVal} : fut'[k] = fut[k]]_vars
    /\ [](\A k \in Ids : pc[k] \in {"returned", "raised"} /\ ret[k] # SendFailed =>
                             ret[k] = fut[k])

----------------------------------------------------------------------------
\* Ordering inside disconnect(), registration of requests, life of pending entries

\* The receive loop has not completed: its task exists and has not finished.
LoopAlive == recv_task \in {"scheduled", "running", "cancelling"}

\* C31: disconnect() never returns while the receive loop is still running. From its
\* first step to its return the state is not connected, so a call() started in
\* between is refused; the stream is closed by disconnect() only after the cancelled
\* loop has completed, and the loop has completed when disconnect() returns.
C31_DisconnectAwaitsLoop ==
    [][/\ ev'.op = "disconnect_return" => ~LoopAlive'
       /\ disc_pc' # "idle" => ~connected'
       /\ (disc_pc # "idle" /\ Call) => ev'.op = "call_refused"
       /\ (disc_pc = "await_recv" /\ disc_pc' # "await_recv")
          => recv_task = "cancelled" /\ recv_task' = "none"
       /\ disc_pc' = "await_close" => recv_task' = "none"
       /\ (stream = "open" /\ stream' = "closed" /\ ~StreamCloses) => ~LoopAlive]_vars

\* A call() refused while disconnect() waits for the cancelled loop, which was
\* running and has not finished yet.
C31_Witness ==
    /\ disc_pc = "await_recv"
    /\ recv_task = "cancelling"
    /\ ev.op = "call_refused"
    /\ ws = "open"

\* disconnect() returned after waiting for a loop that had calls suspended on it.
C31_WitnessReturned ==
    /\ ev = Event("disconnect_return", 0)
    /\ recv_task = "none"
    /\ disc_snap # {}
    /\ stream = "closed"

\* The requests that were put on the wire.
OnWire == {wire[i] : i \in 1..Len(wire)}

\* The requests on the wire whose caller still waits for the answer, on a connection
\* whose receive loop has not ended.
Awaited ==
    {k \in OnWire : /\ pc[k] = "waiting"
                    /\ fut[k].st = "unresolved"
                    /\ recv_task \in {"scheduled", "running"}}

\* C32: no request id is on the wire without being registered as pending. An id is
\* in the pending table in the very step that puts it on the wire and stays there
\* while its caller waits and the loop lives, so the response to it, whenever the
\* loop reads it, finds the entry of its id and takes it out.
C32_RegisteredBeforeSent ==
    [][/\ \A k \in OnWire' \ OnWire : k \in pending'
       /\ Awaited' \subseteq pending'
       /\ \A m \in Responses :
            (m.idKind = "int" /\ m.idVal \in Awaited /\ RecvLoopStep(m))
            => /\ ~IsUnmatched(m)
               /\ m.idVal \notin pending'
               /\ ev'.op # "ignored"]_vars

\* The response to request 1 was read while request 2 was already on the wire: the
\* future of call 1 is resolved before the caller has resumed, entry 1 is gone and
\* entry 2 is in place.
C32_Witness ==
    /\ wire = <<1, 2>>
    /\ pc[1] = "waiting"
    /\ fut[1] = ResultOf("pong")
    /\ pending = {2}
    /\ recv_task = "running"

\* The calls that have exited: returned a result, raised, or were cancelled.
Exited == {k \in Ids : pc[k] \in {"returned", "raised", "cancelled"}}

\* C37: no pending entry outlives its caller: the id of a call() that has exited, by
\* returning, by raising (also when the send failed) or by being cancelled, is not in
\* the pending table.
C37_NoEntryOutlivesCaller == \A k \in Exited : k \notin pending

----------------------------------------------------------------------------
\* Readiness wait and session: attempts before the timeout, failed connects

\* C39: a readiness wait with a positive timeout whose launched process has not
\* exited makes at least one connect attempt before it raises the timed-out error,
\* with or without a discovery listener.
C39_AttemptBeforeTimeout ==
    (/\ srv_ret.op = "wait"
     /\ srv_ret.kind = "raised"
     /\ srv_ret.message = "Timed out"
     /\ srv_ret.timeout > 0
     /\ srv_ret.process # "exited")
    => srv_ret.attempt >= 1

\* The session has no connected current connection: require_probe() would raise.
NoCurrent == _probe = 0 \/ ~conns[_probe].connected

\* C40: a connect_to_probe whose connect fails leaves the session without a connected
\* current connection. By the time the connect is tried the previous connection has
\* been disconnected; the failure changes neither the current connection nor the
\* connections made; nothing but a connect that succeeds makes a connected current
\* connection again, and until then require_probe() raises.
C40_FailedConnectLeavesNoProbe ==
    [][/\ (srv_op'.op = "connect_to_probe" /\ srv_op'.pc = "connect") => NoCurrent'
       /\ (srv_op.op = "connect_to_probe" /\ ConnectReturns(FALSE))
          => /\ NoCurrent'
             /\ UNCHANGED <<_probe, conns>>
             /\ srv_ret' = OpRaised("connect_to_probe", "connect")
       /\ (NoCurrent /\ ~NoCurrent') => ConnectReturns(TRUE)
       /\ (NoCurrent /\ RequireProbe)
          => srv_ret' = Failed("require_probe", "local", NoProbeError)]_vars

\* connect_to_probe failed in its connect after a connection had been made: that
\* connection is disconnected and nothing is current.
C40_Witness ==
    /\ srv_ret = OpRaised("connect_to_probe", "connect")
    /\ Len(conns) = 1
    /\ ~conns[1].connected
    /\ _probe = 0

----------------------------------------------------------------------------
\* Discovery datagrams that are not of the protocol

\* Not UTF-8 JSON, not of the protocol, or of a type that is neither announce nor
\* goodbye.
Foreign(data) ==
    \/ data.decode \in {"undecodable", "nonjson"}
    \/ data.decode = "nonobject"
    \/ data.protocol # "qtmcp-discovery"
    \/ data.type \notin {"announce", "goodbye"}

\* C36: a datagram that is not decodable as UTF-8 JSON, not of the discovery protocol
\* or of an unknown type leaves the registry unchanged, sets no "probe found" event,
\* wakes no waiter and leaves the endpoint receiving; an announce of the protocol
\* received by a running endpoint, whatever was discarded before, is registered.
C36_ForeignDatagramIgnored ==
    [][\A data \in RawDatagrams :
         /\ (Foreign(data) /\ DatagramReceived(data))
            => /\ UNCHANGED <<probes, found_event, waiter, disc_ret>>
               /\ transport'.running
               /\ ev'.op \notin {"discovered", "refreshed", "departed"}
         /\ (~Foreign(data) /\ data.type = "announce" /\ DatagramReceived(data))
            => /\ Known(Key(DiscoveredProbe(data.body)))'
               /\ transport' = transport]_vars

\* An announce registered by an endpoint that had discarded datagrams before it: it
\* is the only entry and the event is set.
C36_Witness ==
    /\ ev = Event("discovered", 0)
    /\ transport.running
    /\ transport.dropped = MaxDropped
    /\ Len(probes) = 1
    /\ found_event

\* A datagram discarded while wait_for_probe() is waiting: the waiter still waits.
C36_WitnessWaiting ==
    /\ ev.op \in {"dropped", "raised"}
    /\ waiter.pc = "waiting"
    /\ ~found_event
    /\ probes = <<>>

----------------------------------------------------------------------------
\* EventRecorder: what a restart and a stop() send to the probe

\* The calls stop() sends after its cleanup for the session that is recording.
StopCalls ==
    (IF include_lifecycle THEN {"qt.signals.setLifecycle"} ELSE {})
    \cup (IF capture_events THEN {"qt.events.stopCapture"} ELSE {})

\* The step in which a start() invoked while Recording begins the new session.
RestartResets == recording /\ session' = session + 1

\* C33: start() invoked while Recording tears the previous session down as stop()
\* would: by the time it resets the recorder it has sent, after the unsubscribe
\* calls, the calls stop() sends for that session (lifecycle off if the session
\* recorded lifecycle, stop-capture if it captured input).
C33_RestartAsStopThenStart ==
    [][RestartResets
       => (IF rec_op.op = "start" THEN rec_op.teardown ELSE {}) = StopCalls]_vars

\* stop() returns in this step.
StopReturns == rec_ret'.op = "stop" /\ rec_op'.op = "none" /\ (rec_op.op = "stop" \/ Stop(1))

\* C34: stop() disables on the probe exactly what the session's start() asked to
\* enable. The settings of a session are the arguments of the start() that began it
\* and do not change while it lasts; a stop() that returns has sent the lifecycle-off
\* call iff the session records lifecycle and the stop-capture call iff it captures
\* input; a stop() from Idle sends nothing and changes nothing.
C34_StopDisablesWhatStartEnabled ==
    [][/\ (session' = session + 1 /\ rec_op'.op = "start")
          => /\ include_lifecycle' = rec_op'.arg_lifecycle
             /\ capture_events' = rec_op'.arg_capture
       /\ (session' = session + 1 /\ rec_op'.op = "none")
          => /\ ~include_lifecycle'
             /\ capture_events' = rec_ret'.capture_events
       /\ session' = session => UNCHANGED <<include_lifecycle, capture_events>>
       /\ StopReturns
          => rec_ret'.teardown = (IF recording THEN StopCalls ELSE {})
       /\ (~recording /\ Stop(1))
          => /\ rec_ret' = NotRecording
             /\ UNCHANGED <<server, recording, events, subscriptions>>]_vars

\* stop() of a session started with input capture and without lifecycle recording
\* returned: it sent stop-capture and not the lifecycle call.
C34_Witness ==
    /\ rec_ret.op = "stop"
    /\ rec_ret.recording = FALSE
    /\ rec_ret.teardown = {"qt.events.stopCapture"}
    /\ capture_events
    /\ ~include_lifecycle
    /\ session = 1

\* stop() of a session with lifecycle recording only sent the lifecycle call alone.
C34_WitnessLifecycle ==
    /\ rec_ret.op = "stop"
    /\ rec_ret.teardown = {"qt.signals.setLifecycle"}
    /\ ~capture_events
    /\ include_lifecycle

----------------------------------------------------------------------------
\* EventRecorder: order and time of the buffered events

\* s is t, or t with events appended
IsPrefix(s, t) == Len(s) <= Len(t) /\ SubSeq(t, 1, Len(s)) = s

\* The timestamps of the buffered events never decrease.
Ordered(evs, stamp(_)) ==
    \A i, j \in 1..Len(evs) : i < j => stamp(evs[i]) <= stamp(evs[j])

RawStamp(e) == e.timestamp
OutStamp(d) == d.t

\* C35: within one recording session the buffer is append-only and ordered. While
\* the session lasts and stop() has not returned, every step leaves what is buffered
\* in place, a notification appends its event at the end, and the timestamps never
\* decrease; stop() returns the buffered events in that order; a notification
\* handled when not Recording changes nothing.
C35_BufferAppendOnlyOrdered ==
    [][/\ (recording /\ recording' /\ session' = session) => IsPrefix(events, events')
       /\ \A method \in TimedMethods :
            Notified(method, MaxTimedEvents)
            => IF recording
               THEN events' = events \o Handled(method)
               ELSE UNCHANGED recVars
       /\ Ordered(events', RawStamp)
       /\ StopReturns
          => /\ rec_ret'.events = [i \in 1..Len(events) |-> ToDict(events[i])]
             /\ rec_ret'.event_count = Len(events)
             /\ Ordered(rec_ret'.events, OutStamp)
       /\ ~recording' => events' = <<>>]_vars

\* stop() returned two events recorded at different times, the earlier one first.
C35_Witness ==
    /\ rec_ret.op = "stop"
    /\ rec_ret.event_count = 2
    /\ rec_ret.events[1].t < rec_ret.events[2].t
    /\ rec_ret.events[1].type = "signal"
    /\ rec_ret.events[2].type = "event"

\* A notification handled while Idle, after a session: nothing is buffered.
C35_WitnessIdle ==
    /\ ~recording
    /\ session = 1
    /\ rec_ret.op = "stop"
    /\ ev = Event("step", 0)
    /\ events = <<>>
    /\ now > 0

\* C38: every event in the result of stop() has a timestamp t not greater than the
\* duration reported in the same result.
C38_TimestampsWithinDuration ==
    rec_ret.op = "stop"
    => \A i \in 1..Len(rec_ret.events) : rec_ret.events[i].t <= rec_ret.duration

====
